---------------------------- MODULE Spec2Model ----------------------------
(***************************************************************************)
(* Study-plan generator (src/app2.py and its earlier variant src/app.py). *)
(* A Streamlit script: every interaction re-executes main() from the top, *)
(* reading st.session_state (catalog, free_choice_courses) and the        *)
(* current widget values.  Text that the code strips, case-converts or    *)
(* searches (course names, codes, semesters, labels) is a sequence of     *)
(* one-character strings; text that the code only stores or uses as a     *)
(* dictionary key (path names, dept, year, links) is an atomic string.    *)
(***************************************************************************)
EXTENDS Integers, Sequences, FiniteSets, TLC

\* ------------------------------------------------------------------ text
Whitespace == {" "}
LowerAlpha == <<"a","b","c","d","e","f","g","h","i","j","k","l","m","n","o","p","q","r","s","t","u","v","w","x","y","z">>
UpperAlpha == <<"A","B","C","D","E","F","G","H","I","J","K","L","M","N","O","P","Q","R","S","T","U","V","W","X","Y","Z">>

Range(s) == {s[i] : i \in 1..Len(s)}

RECURSIVE lstrip(_)
lstrip(s) ==
    IF s # <<>> /\ s[1] \in Whitespace THEN lstrip(Tail(s)) ELSE s

RECURSIVE rstrip(_)
rstrip(s) ==
    IF s # <<>> /\ s[Len(s)] \in Whitespace
    THEN rstrip(SubSeq(s, 1, Len(s) - 1)) ELSE s

\* str.strip(): drop leading and trailing whitespace
strip(s) == rstrip(lstrip(s))

\* character tables of str.upper() and str.lower()
UpperTable == [c \in Range(LowerAlpha) |->
                 UpperAlpha[CHOOSE i \in 1..26 : LowerAlpha[i] = c]]
LowerTable == [c \in Range(UpperAlpha) |->
                 LowerAlpha[CHOOSE i \in 1..26 : UpperAlpha[i] = c]]

upper_char(c) == IF c \in DOMAIN UpperTable THEN UpperTable[c] ELSE c
lower_char(c) == IF c \in DOMAIN LowerTable THEN LowerTable[c] ELSE c

\* str.upper() / str.lower()
upper(s) == [i \in 1..Len(s) |-> upper_char(s[i])]
lower(s) == [i \in 1..Len(s) |-> lower_char(s[i])]

\* Python's  sub in s  for strings
contains(s, sub) ==
    \E i \in 0..(Len(s) - Len(sub)) : SubSeq(s, i + 1, i + Len(sub)) = sub

Digits == <<"0","1","2","3","4","5","6","7","8","9">>
RECURSIVE int_to_str(_)
\* str(n) for n >= 0
int_to_str(n) ==
    IF n < 10 THEN <<Digits[n + 1]>>
    ELSE int_to_str(n \div 10) \o <<Digits[(n % 10) + 1]>>

\* ---------------------------------------------------------- data helpers
\* the semester lookup table of make_course, as <<spelling, canonical>> pairs
mapping ==
    { <<<<"I">>, <<"f","i","r","s","t">>>>, <<<<"1">>, <<"f","i","r","s","t">>>>,
      <<<<"F","i","r","s","t">>, <<"f","i","r","s","t">>>>, <<<<"f","i","r","s","t">>, <<"f","i","r","s","t">>>>,
      <<<<"I","I">>, <<"s","e","c","o","n","d">>>>, <<<<"2">>, <<"s","e","c","o","n","d">>>>,
      <<<<"S","e","c","o","n","d">>, <<"s","e","c","o","n","d">>>>, <<<<"s","e","c","o","n","d">>, <<"s","e","c","o","n","d">>>>,
      <<<<"f","i","r","s","t","&","S","e","c","o","n","d">>, <<"f","i","r","s","t","&","s","e","c","o","n","d">>>>,
      <<<<"F","i","r","s","t","&","S","e","c","o","n","d">>, <<"f","i","r","s","t","&","s","e","c","o","n","d">>>>,
      <<<<"f","i","r","s","t","&","s","e","c","o","n","d">>, <<"f","i","r","s","t","&","s","e","c","o","n","d">>>> }

\* mapping.get(s, s)
mapping_get(s) ==
    IF \E p \in mapping : p[1] = s
    THEN (CHOOSE p \in mapping : p[1] = s)[2] ELSE s

\* mutant of make_course: the semester is looked up without being stripped
make_course_unstripped(name, code, cfu, dept, year, semester, links) ==
    [ name |-> name, code |-> code, cfu |-> cfu, dept |-> dept,
      year |-> year, semester |-> mapping_get(semester),
      links |-> links ]

make_course(name, code, cfu, dept, year, semester, links) ==
    [ name |-> name, code |-> code, cfu |-> cfu, dept |-> dept,
      year |-> year, semester |-> mapping_get(strip(semester)),
      links |-> links ]

\* f"{c['name']} ({c['code']}, {c['cfu']} CFU)"
course_label(c) ==
    c.name \o <<" ","(">> \o c.code \o <<","," ">> \o int_to_str(c.cfu) \o <<" ","C","F","U",")">>

DeptDS == "DIETI - LM Data Science"

FIXED_COMPONENTS ==
    << make_course(<<"A","L","T","R","E"," ","A","T","T","I","V","I","T","A">>, <<"1","2","5","6","8">>, 6, DeptDS, "Second", <<"s","e","c","o","n","d">>, <<>>),
       make_course(<<"T","E","S","I"," ","D","I"," ","L","A","U","R","E","A">>, <<"U","2","8","4","8">>, 16, DeptDS, "Second", <<"s","e","c","o","n","d">>, <<>>),
       make_course(<<"T","I","R","O","C","I","N","I","O","/","S","T","A","G","E">>, <<"U","4","3","1","9">>, 8, DeptDS, "Second", <<"s","e","c","o","n","d">>, <<>>) >>

\* ------------------------------------------------ seeded session state
MainIT == "Curriculum INFORMATION TECHNOLOGIES"
MainECO == "Curriculum PUBLIC ADMINISTRATION, ECONOMY AND MANAGEMENT - ECO"
SubTS == "PDS ITE/TS - CURRICULUM INFORMATION TECHNOLOGIES/TEXT AND SPEECH PROCESSING"
SubSV == "PDS ITE/SV - CURRICULUM INFORMATION TECHNOLOGIES/SIGNAL AND VIDEO PROCESSING"
SubAI == "PDS ITE/AI - CURRICULUM INFORMATION TECHNOLOGIES/DATA SECURITY"
SubISY == "PDS ISY - CURRICULUM INTELLIGENT SYSTEMS"
SubECO == "PDS ECO - CURRICULUM PUBLIC ADMINISTRATION, ECONOMY AND MANAGEMENT"

\* st.session_state.catalog as seeded: two of the seeded sub paths, one with
\* a ban rule (ITE/TS) and one without (ECO)
SeedCatalog ==
    (MainIT :> (SubTS :>
        << make_course(<<"M","u","l","t","i","m","e","d","i","a"," ","I","n","f","o","r","m","a","t","i","o","n"," ","R","e","t","r","i","e","v","a","l"," ","a","n","d"," ","T","e","x","t"," ","M","i","n","i","n","g">>,
                       <<"U","5","4","4","1">>, 12, DeptDS, "Second", <<"f","i","r","s","t","&","s","e","c","o","n","d">>, <<"url1", "url2">>),
           make_course(<<"S","p","e","e","c","h"," ","P","r","o","c","e","s","s","i","n","g">>,
                       <<"U","6","6","3","6">>, 6, DeptDS, "Second", <<"s","e","c","o","n","d">>, <<"url1">>) >>))
    @@
    (MainECO :> (SubECO :>
        << make_course(<<"C","o","m","p","u","t","a","t","i","o","n","a","l"," ","S","t","a","t","i","s","t","i","c","a","l"," ","a","n","d"," ","G","e","n","e","r","a","l","i","z","e","d"," ","L","i","n","e","a","r"," ","M","o","d","e","l","s">>,
                       <<"U","5","4","5","3">>, 12, DeptDS, "Second", <<"f","i","r","s","t">>, <<"url1">>),
           make_course(<<"F","i","n","a","n","c","i","a","l"," ","T","i","m","e"," ","S","e","r","i","e","s"," ","A","n","a","l","y","s","i","s">>,
                       <<"U","6","3","7","3">>, 6, "DISES - LM Economics and Finance DH5", "Second", <<"f","i","r","s","t">>, <<"url1">>) >>))

\* st.session_state.free_choice_courses as seeded: four of the seeded courses
SeedFreeChoice ==
    << make_course(<<"D","a","t","a"," ","S","e","c","u","r","i","t","y">>, <<"U","2","6","5","2">>, 6, DeptDS, "Second", <<"I">>, <<"url1">>),
       make_course(<<"S","p","e","e","c","h"," ","P","r","o","c","e","s","s","i","n","g">>, <<"U","6","6","3","6">>, 6, DeptDS, "Second", <<"I","I">>, <<"url1">>),
       make_course(<<"T","e","x","t"," ","M","i","n","i","n","g">>, <<"U","5","9","0","2">>, 6, DeptDS, "Second", <<"I">>, <<"url1">>),
       make_course(<<"A","d","v","a","n","c","e","d"," ","M","i","c","r","o","e","c","o","n","o","m","i","c","s">>, <<"2","5","8","8","0">>, 12,
                   "DISES - LM Economics and Finance", "Second", <<"I">>, <<"url1">>) >>

\* path-specific forbidden free-choice codes
banned_by_subpath ==
    (SubTS :> {<<"U","5","9","0","2">>}) @@ (SubSV :> {<<"U","1","6","4","4">>}) @@
    (SubAI :> {<<"U","2","6","5","2">>}) @@ (SubISY :> {<<"U","7","2","1","9">>})

\* selectbox placeholders
SelectMainPath == "Select Main Path"
SelectSubPath == "Select Sub Path"
CreateNewMain == "+ Create new main path..."

\* ------------------------------------------------------- bounds, inputs
\* free-choice courses a teacher may append beyond the seed
MaxAdded == 1
\* sub paths of the catalog that may differ from the seed
MaxSubPathEdits == 1

\* CFU by which one selected course is raised when monotonicity is checked
MaxRaise == 2

\* add_free_form submissions (f_name, f_code, f_cfu)
FreeFormInputs ==
    { [name |-> <<"s","p","e","e","c","h"," ","p","r","o","c","e","s","s","i","n","g"," ">>, code |-> <<"U","9","9","9","9">>, cfu |-> 1],
      [name |-> <<"T","h","e","s","i","s"," ","L","a","b">>, code |-> <<" ","u","5","9","0","2">>, cfu |-> 12],
      [name |-> <<"T","e","x","t"," ","M","i","n","i","n","g">>, code |-> <<"U","8","Z","Z","Z">>, cfu |-> 6],
      [name |-> <<>>, code |-> <<"U","8","Z","Z","Z">>, cfu |-> 6],
      [name |-> <<"T","h","e","s","i","s"," ","L","a","b">>, code |-> <<>>, cfu |-> 6] }

\* "Add / Update Sub Path" submissions: the main path selectbox, the
\* "New Main Path Name" and "Sub Path Name" inputs and the add_spec_form fields
SpecForm(choice, new_main, sub_path, c1_name, c1_code, c1_cfu, c2_name, c2_code, c2_cfu) ==
    [choice |-> choice, new_main |-> new_main, sub_path |-> sub_path,
     c1_name |-> c1_name, c1_code |-> c1_code, c1_cfu |-> c1_cfu,
     c2_name |-> c2_name, c2_code |-> c2_code, c2_cfu |-> c2_cfu]
SpecFormInputs ==
    { SpecForm(MainIT, "", SubTS,
               <<"S","e","c","u","r","i","t","y"," ","L","a","b">>, <<"u","2","6","5","2"," ">>, 1, <<"T","h","e","s","i","s"," ","L","a","b">>, <<"U","7","Y","Y","Y">>, 12),
      SpecForm(CreateNewMain, "Curriculum NEW", SubTS,
               <<"S","e","c","u","r","i","t","y"," ","L","a","b">>, <<"u","2","6","5","2"," ">>, 1, <<"T","h","e","s","i","s"," ","L","a","b">>, <<"U","7","Y","Y","Y">>, 12),
      SpecForm(CreateNewMain, "", SubTS,
               <<"S","e","c","u","r","i","t","y"," ","L","a","b">>, <<"u","2","6","5","2"," ">>, 1, <<"T","h","e","s","i","s"," ","L","a","b">>, <<"U","7","Y","Y","Y">>, 12),
      SpecForm(MainIT, "", "",
               <<"S","e","c","u","r","i","t","y"," ","L","a","b">>, <<"u","2","6","5","2"," ">>, 1, <<"T","h","e","s","i","s"," ","L","a","b">>, <<"U","7","Y","Y","Y">>, 12),
      SpecForm(MainECO, "", SubECO,
               <<>>, <<"U","7","X","X","X">>, 12, <<"T","h","e","s","i","s"," ","L","a","b">>, <<"U","7","Y","Y","Y">>, 6),
      SpecForm(MainECO, "", SubECO,
               <<" ">>, <<"U","7","X","X","X">>, 12, <<"T","h","e","s","i","s"," ","L","a","b">>, <<"U","7","Y","Y","Y">>, 6) }

\* one manual free-choice slot as typed: name, dept, code, cfu, year, sem
DefaultSlot ==
    [name |-> <<>>, dept |-> "", code |-> <<>>, cfu |-> 6,
     year |-> "Second", sem |-> <<"F","i","r","s","t">>]
Slot(name, code, cfu, dept) ==
    [name |-> name, dept |-> dept, code |-> code, cfu |-> cfu,
     year |-> "Second", sem |-> <<"F","i","r","s","t">>]
SlotML == Slot(<<"M","a","c","h","i","n","e"," ","L","e","a","r","n","i","n","g">>, <<"U","1","1","1","1">>, 12, "DIETI")
SlotMLAgain == Slot(<<"m","a","c","h","i","n","e"," ","l","e","a","r","n","i","n","g"," ">>, <<"u","1","1","1","1">>, 1, "DIETI")
SlotTesi == Slot(<<"T","e","s","i"," ","d","i"," ","l","a","u","r","e","a">>, <<"U","5","9","0","2"," ">>, 12, "DIETI")
SlotBlank == Slot(<<" ">>, <<"U","4","4","4","4">>, 6, "DIETI")
SlotDL == Slot(<<"D","e","e","p"," ","L","e","a","r","n","i","n","g">>, <<"U","2","2","2","2">>, 6, "DIETI")
SlotItalian == Slot(<<"A","d","v","a","n","c","e","d"," ","I","t","a","l","i","a","n"," ","E","c","o","n","o","m","i","c","s">>, <<"U","3","3","3","3">>, 6, "DIETI")
SlotBlankToo == Slot(<<" "," ">>, <<"U","5","5","5","5">>, 6, "DIETI")
\* what the student may type into manual slot i
SlotInputs(i) ==
    IF i = 1 THEN {DefaultSlot, SlotML, SlotMLAgain, SlotItalian}
    ELSE IF i = 2 THEN {DefaultSlot, SlotML, SlotMLAgain, SlotTesi, SlotBlank}
    ELSE {DefaultSlot, SlotTesi, SlotDL, SlotBlankToo}

\* ---------------------------------------------------- student workflow
RECURSIVE sum_cfu(_)
\* sum(c["cfu"] for c in courses)
sum_cfu(courses) ==
    IF courses = <<>> THEN 0 ELSE Head(courses).cfu + sum_cfu(Tail(courses))

n_free_required(plan_is_psi) == IF plan_is_psi THEN 3 ELSE 2

\* mutant of curricular_list: PSI keeps both curricular courses
curricular_list_both(curr_courses, plan_is_psi) == curr_courses

\* [curr_courses[0]] if plan_is_psi else curr_courses
curricular_list(curr_courses, plan_is_psi) ==
    IF plan_is_psi THEN <<curr_courses[1]>> ELSE curr_courses

curr_codes(curricular) == {upper(strip(c.code)) : c \in Range(curricular)}
curr_names(curricular) == {lower(strip(c.name)) : c \in Range(curricular)}

\* mutant of banned_codes: the lookup never finds the sub path
banned_codes_not_found(sub_choice) == {}

\* banned_by_subpath.get(sub_choice, set())
banned_codes(sub_choice) ==
    IF sub_choice \in DOMAIN banned_by_subpath
    THEN banned_by_subpath[sub_choice] ELSE {}

\* mutant of is_available: the name comparison is forgotten
is_available_code_only(fc, codes, names, banned) ==
    /\ upper(strip(fc.code)) \notin codes
    /\ upper(strip(fc.code)) \notin banned

\* the condition of the available_free_courses comprehension
is_available(fc, codes, names, banned) ==
    /\ upper(strip(fc.code)) \notin codes
    /\ lower(strip(fc.name)) \notin names
    /\ upper(strip(fc.code)) \notin banned

\* mutant of available_free_courses: the eligible courses, last one first
available_free_courses_reversed(pool, codes, names, banned) ==
    [i \in 1..Len(SelectSeq(pool, LAMBDA fc : is_available(fc, codes, names, banned))) |->
        SelectSeq(pool, LAMBDA fc : is_available(fc, codes, names, banned))
            [Len(SelectSeq(pool, LAMBDA fc : is_available(fc, codes, names, banned))) + 1 - i]]

\* mutant of available_free_courses: the pool is offered as it is
available_free_courses_unfiltered(pool, codes, names, banned) == pool

\* [fc for fc in free_choice_courses if <is_available>]
available_free_courses(pool, codes, names, banned) ==
    SelectSeq(pool, LAMBDA fc : is_available(fc, codes, names, banned))

free_labels(available) == [i \in 1..Len(available) |-> course_label(available[i])]

\* [c for c in available_free_courses if course_label(c) in labels]
selected_free(available, labels) ==
    SelectSeq(available, LAMBDA c : course_label(c) \in Range(labels))

\* state of the manual-entry loop before its first iteration
manual_init ==
    [valid_custom |-> TRUE, errors |-> <<>>, seen_codes |-> {},
     seen_names |-> {}, custom_free |-> <<>>]

\* mutant of manual_errors_a: the whole name is compared with "italian"
manual_errors_a_whole_name(i, code_up, name_lo, codes, names, banned) ==
    (IF name_lo # <<>> /\ name_lo = <<"i","t","a","l","i","a","n">>
        THEN <<[slot |-> i, rule |-> "italian"]>> ELSE <<>>)
    \o (IF code_up # <<>> /\ code_up \in codes
        THEN <<[slot |-> i, rule |-> "curricular_code"]>> ELSE <<>>)
    \o (IF name_lo # <<>> /\ name_lo \in names
        THEN <<[slot |-> i, rule |-> "curricular_name"]>> ELSE <<>>)
    \o (IF code_up # <<>> /\ code_up \in banned
        THEN <<[slot |-> i, rule |-> "banned_code"]>> ELSE <<>>)

\* errors added by checks 0), 1) and 2) for slot i
manual_errors_a(i, code_up, name_lo, codes, names, banned) ==
    (IF name_lo # <<>> /\ contains(name_lo, <<"i","t","a","l","i","a","n">>)
        THEN <<[slot |-> i, rule |-> "italian"]>> ELSE <<>>)
    \o (IF code_up # <<>> /\ code_up \in codes
        THEN <<[slot |-> i, rule |-> "curricular_code"]>> ELSE <<>>)
    \o (IF name_lo # <<>> /\ name_lo \in names
        THEN <<[slot |-> i, rule |-> "curricular_name"]>> ELSE <<>>)
    \o (IF code_up # <<>> /\ code_up \in banned
        THEN <<[slot |-> i, rule |-> "banned_code"]>> ELSE <<>>)

\* errors added by check 3) for slot i
manual_errors_b(i, code_up, name_lo, seen_codes, seen_names) ==
    (IF code_up # <<>> /\ code_up \in seen_codes
        THEN <<[slot |-> i, rule |-> "duplicate_code"]>> ELSE <<>>)
    \o (IF name_lo # <<>> /\ name_lo \in seen_names
        THEN <<[slot |-> i, rule |-> "duplicate_name"]>> ELSE <<>>)

\* the checks and the append of one iteration, for the normalised code
\* and name of the typed course
manual_checked(st, i, w, code_up, name_lo, codes, names, banned) ==
    [valid_custom |->
        /\ st.valid_custom
        /\ ~(w.name = <<>> \/ w.code = <<>> \/ w.dept = "")
        /\ manual_errors_a(i, code_up, name_lo, codes, names, banned) = <<>>
        /\ manual_errors_b(i, code_up, name_lo, st.seen_codes, st.seen_names) = <<>>,
     errors |-> st.errors
        \o manual_errors_a(i, code_up, name_lo, codes, names, banned)
        \o manual_errors_b(i, code_up, name_lo, st.seen_codes, st.seen_names),
     seen_codes |-> IF code_up # <<>> THEN st.seen_codes \cup {code_up}
                    ELSE st.seen_codes,
     seen_names |-> IF name_lo # <<>> THEN st.seen_names \cup {name_lo}
                    ELSE st.seen_names,
     custom_free |-> Append(st.custom_free,
         make_course(w.name, w.code, w.cfu, w.dept, w.year, w.sem, <<>>))]

\* one iteration of  for i in range(n_free_required)  (i is 1-based here,
\* as in the messages)
manual_step(st, i, w, codes, names, banned) ==
    manual_checked(st, i, w, upper(strip(w.code)), lower(strip(w.name)),
                   codes, names, banned)

RECURSIVE manual_loop(_, _, _, _, _, _)
\* the loop state after slots 1..i
manual_loop(i, slots, codes, names, banned, st0) ==
    IF i = 0 THEN st0
    ELSE manual_step(manual_loop(i - 1, slots, codes, names, banned, st0),
                     i, slots[i], codes, names, banned)

\* mutant of excess_of: overage above the tolerance counts as none
excess_of_soft_only(current_total) ==
    IF current_total - 60 > 0 /\ current_total - 60 <= 6
    THEN current_total - 60 ELSE 0

excess_of(current_total) == IF current_total - 60 > 0 THEN current_total - 60 ELSE 0

\* mutant of requires_approval: manual entry is forgotten
requires_approval_no_custom(plan_is_psi, using_custom, excess) ==
    plan_is_psi \/ excess > 0

requires_approval(plan_is_psi, using_custom, excess) ==
    plan_is_psi \/ using_custom \/ excess > 0

\* mutant of can_generate_catalogue: the old limit of 60 CFU
can_generate_catalogue_max_60(using_custom, selected, plan_is_psi, current_total) ==
    /\ ~using_custom
    /\ Len(selected) = n_free_required(plan_is_psi)
    /\ (~plan_is_psi \/ current_total >= 60)
    /\ current_total <= 60

\* mutant of can_generate_catalogue: fewer than n courses are accepted
can_generate_catalogue_at_most_n(using_custom, selected, plan_is_psi, current_total) ==
    /\ ~using_custom
    /\ Len(selected) <= n_free_required(plan_is_psi)
    /\ (~plan_is_psi \/ current_total >= 60)
    /\ current_total <= 66

\* mutant of can_generate_catalogue: the floor of 60 CFU in every plan mode
can_generate_catalogue_floor_always(using_custom, selected, plan_is_psi, current_total) ==
    /\ ~using_custom
    /\ Len(selected) = n_free_required(plan_is_psi)
    /\ current_total >= 60
    /\ current_total <= 66

can_generate_catalogue(using_custom, selected, plan_is_psi, current_total) ==
    /\ ~using_custom
    /\ Len(selected) = n_free_required(plan_is_psi)
    /\ (~plan_is_psi \/ current_total >= 60)
    /\ current_total <= 66

\* mutant of can_generate_custom: no upper limit
can_generate_custom_uncapped(using_custom, valid_custom, custom_free, codes, names, banned, plan_is_psi, current_total) ==
    /\ using_custom
    /\ valid_custom
    /\ \A cf \in Range(custom_free) :
          cf.name # <<>> /\ cf.code # <<>> /\ cf.dept # ""
    /\ \A cf \in Range(custom_free) :
          /\ upper(strip(cf.code)) \notin codes
          /\ lower(strip(cf.name)) \notin names
    /\ \A cf \in Range(custom_free) : upper(strip(cf.code)) \notin banned
    /\ (~plan_is_psi \/ current_total >= 60)

can_generate_custom(using_custom, valid_custom, custom_free, codes, names, banned, plan_is_psi, current_total) ==
    /\ using_custom
    /\ valid_custom
    /\ \A cf \in Range(custom_free) :
          cf.name # <<>> /\ cf.code # <<>> /\ cf.dept # ""
    /\ \A cf \in Range(custom_free) :
          /\ upper(strip(cf.code)) \notin codes
          /\ lower(strip(cf.name)) \notin names
    /\ \A cf \in Range(custom_free) : upper(strip(cf.code)) \notin banned
    /\ (~plan_is_psi \/ current_total >= 60)
    /\ current_total <= 66

\* app.py: can_generate
can_generate(selected, plan_is_psi, current_total) ==
    /\ Len(selected) = n_free_required(plan_is_psi)
    /\ (~plan_is_psi \/ current_total >= 60)

\* mutant of ordered_courses: PSI keeps both curricular courses
ordered_courses_both(curr_courses, free_block, plan_is_psi) ==
    <<curr_courses[1], curr_courses[2]>> \o free_block \o FIXED_COMPONENTS

ordered_courses(curr_courses, free_block, plan_is_psi) ==
    IF plan_is_psi
    THEN <<curr_courses[1]>> \o free_block \o FIXED_COMPONENTS
    ELSE <<curr_courses[1], curr_courses[2]>> \o free_block \o FIXED_COMPONENTS

\* app.py builds the rows by index
ordered_courses_app(curr_courses, sel, plan_is_psi) ==
    IF plan_is_psi
    THEN <<curr_courses[1], sel[1], sel[2], sel[3],
           FIXED_COMPONENTS[1], FIXED_COMPONENTS[2], FIXED_COMPONENTS[3]>>
    ELSE <<curr_courses[1], curr_courses[2], sel[1], sel[2],
           FIXED_COMPONENTS[1], FIXED_COMPONENTS[2], FIXED_COMPONENTS[3]>>

watermark(approval) == IF approval THEN "To Be Approved" ELSE "None"

\* ---------------------------------------------------- submission relay
\* what can happen to the relay: the secrets are missing, requests.post
\* raises, the server answers JSON (saying ok or not), JSON that does not
\* parse, something that is not JSON, or the function itself raises (reading
\* the secrets, encoding the payload)
RelayResponses ==
    {"missing_secrets", "request_failed", "json_ok", "json_not_ok", "bad_json",
     "non_json_response", "raises"}

\* send_to_google: the dict it returns, or raised
send_to_google(response) ==
    CASE response = "missing_secrets" ->
            [raised |-> FALSE, ok |-> FALSE,
             error |-> "Missing RECEIVER_URL / GS_API_KEY in secrets"]
      [] response = "request_failed" ->
            [raised |-> FALSE, ok |-> FALSE, error |-> "request_failed"]
      [] response = "json_ok" ->
            [raised |-> FALSE, ok |-> TRUE, error |-> ""]
      [] response = "json_not_ok" ->
            [raised |-> FALSE, ok |-> FALSE, error |-> "server"]
      [] response = "bad_json" ->
            [raised |-> FALSE, ok |-> FALSE, error |-> "bad_json"]
      [] response = "non_json_response" ->
            [raised |-> FALSE, ok |-> FALSE, error |-> "non_json_response"]
      [] OTHER ->
            [raised |-> TRUE, ok |-> FALSE, error |-> ""]

\* mutant of relay_call: the call is not wrapped in try / except
relay_call_unguarded(response) ==
    IF send_to_google(response).raised THEN "propagated"
    ELSE IF send_to_google(response).ok THEN "ok" ELSE "error"

\* try: _ = send_to_google(...)  except Exception: pass
relay_call(response) ==
    IF send_to_google(response).raised THEN "swallowed"
    ELSE IF send_to_google(response).ok THEN "ok" ELSE "error"

\* app2.py: the end of the Generate branch: the relay call, then the
\* download button, which is reached unless the relay's exception propagates
after_relay(r, response) ==
    IF r.generated
    THEN [r EXCEPT !.relay_result = relay_call(response),
                   !.download = relay_call(response) # "propagated"]
    ELSE r

\* messages of the budget section (st.error / st.warning)
budget_messages(plan_is_psi, current_total, excess) ==
    (IF plan_is_psi /\ current_total < 60 THEN {"error_psi_minimum"} ELSE {})
    \cup (IF 0 < excess /\ excess <= 6 THEN {"warning_exceed_60"}
          ELSE IF excess > 6 THEN {"error_exceed_60"} ELSE {})

\* mutant of else_messages: manual mode gets no warning of its own
else_messages_catalogue_only(using_custom, selected, plan_is_psi, custom_ok, excess) ==
    (IF ~using_custom /\ Len(selected) # n_free_required(plan_is_psi)
        THEN {"warning_select_exactly_n"} ELSE {})
    \cup (IF excess > 6 THEN {"warning_reduce_to_66"} ELSE {})

\* messages of the else branch of the Generate button
else_messages(using_custom, selected, plan_is_psi, custom_ok, excess) ==
    (IF ~using_custom /\ Len(selected) # n_free_required(plan_is_psi)
        THEN {"warning_select_exactly_n"} ELSE {})
    \cup (IF using_custom /\ ~custom_ok THEN {"warning_complete_custom"} ELSE {})
    \cup (IF excess > 6 THEN {"warning_reduce_to_66"} ELSE {})

\* what one execution of the script leaves when no sub path is chosen
no_plan ==
    [shown |-> FALSE, curr_courses |-> <<>>, curricular_list |-> <<>>,
     available_free_courses |-> <<>>, free_labels |-> <<>>,
     selected_free |-> <<>>, custom_free |-> <<>>, valid_custom |-> TRUE,
     errors |-> <<>>, current_total |-> 0, excess |-> 0,
     requires_approval |-> FALSE, can_generate_catalogue |-> FALSE,
     can_generate_custom |-> FALSE, can_generate |-> FALSE, messages |-> {},
     generated |-> FALSE, ordered_courses |-> <<>>, wm |-> "None",
     download |-> FALSE, relay_result |-> "none"]

\* app2.py: what the execution leaves, from the values it computed: the
\* error and budget messages, the Generate button and the generated rows
student_outcome(curr, cl, avail, sel, loop, chosen_free, total, exc, cgc, cgm, plan_is_psi, using_custom, pressed) ==
    [shown |-> TRUE, curr_courses |-> curr, curricular_list |-> cl,
     available_free_courses |-> avail, free_labels |-> free_labels(avail),
     selected_free |-> sel, custom_free |-> loop.custom_free,
     valid_custom |-> loop.valid_custom, errors |-> loop.errors,
     current_total |-> total, excess |-> exc,
     requires_approval |-> requires_approval(plan_is_psi, using_custom, exc),
     can_generate_catalogue |-> cgc,
     can_generate_custom |-> cgm, can_generate |-> cgc \/ cgm,
     messages |-> (IF loop.errors # <<>> THEN {"error_manual_issues"} ELSE {})
                  \cup budget_messages(plan_is_psi, total, exc)
                  \cup (IF (cgc \/ cgm) /\ pressed THEN {}
                        ELSE else_messages(using_custom, sel, plan_is_psi, cgm, exc)),
     generated |-> (cgc \/ cgm) /\ pressed,
     ordered_courses |-> IF (cgc \/ cgm) /\ pressed
                         THEN ordered_courses(curr, chosen_free, plan_is_psi)
                         ELSE <<>>,
     wm |-> IF (cgc \/ cgm) /\ pressed
            THEN watermark(requires_approval(plan_is_psi, using_custom, exc))
            ELSE "None",
     download |-> (cgc \/ cgm) /\ pressed, relay_result |-> "none"]

\* app2.py: excess and the two generation flags, from the total
student_gates(curr, cl, codes, names, banned, avail, sel, loop, chosen_free, total, plan_is_psi, using_custom, pressed) ==
    student_outcome(curr, cl, avail, sel, loop, chosen_free, total,
        excess_of(total),
        can_generate_catalogue(using_custom, sel, plan_is_psi, total),
        can_generate_custom(using_custom, loop.valid_custom, loop.custom_free,
                            codes, names, banned, plan_is_psi, total),
        plan_is_psi, using_custom, pressed)

\* app2.py: chosen_free and the CFU totals
student_totals(curr, cl, codes, names, banned, avail, sel, loop, plan_is_psi, using_custom, pressed) ==
    student_gates(curr, cl, codes, names, banned, avail, sel, loop,
        IF using_custom THEN loop.custom_free ELSE sel,
        sum_cfu(FIXED_COMPONENTS) + sum_cfu(cl)
            + sum_cfu(IF using_custom THEN loop.custom_free ELSE sel),
        plan_is_psi, using_custom, pressed)

\* app2.py: the multiselect's courses (catalogue mode)
student_selection(curr, cl, codes, names, banned, avail, loop, plan_is_psi, using_custom, labels, pressed) ==
    student_totals(curr, cl, codes, names, banned, avail,
        IF using_custom THEN <<>> ELSE selected_free(avail, labels),
        loop, plan_is_psi, using_custom, pressed)

\* app2.py: the free-choice section: the eligible list in catalogue mode,
\* the manual-entry loop in manual mode
student_free_choice(curr, cl, codes, names, banned, pool, plan_is_psi, using_custom, labels, slots, pressed) ==
    student_selection(curr, cl, codes, names, banned,
        IF using_custom THEN <<>>
        ELSE available_free_courses(pool, codes, names, banned),
        IF using_custom
        THEN manual_loop(n_free_required(plan_is_psi), slots, codes, names,
                         banned, manual_init)
        ELSE manual_init,
        plan_is_psi, using_custom, labels, pressed)

\* app2.py: the curricular codes and names and the sub path's ban set
student_filters(curr, cl, pool, plan_is_psi, sub_choice, using_custom, labels, slots, pressed) ==
    student_free_choice(curr, cl, curr_codes(cl), curr_names(cl),
        banned_codes(sub_choice), pool, plan_is_psi, using_custom, labels,
        slots, pressed)

\* app2.py main(), student workflow, for given session state and widget values
main_app2(cat, pool, plan_is_psi, main_choice, sub_choice, using_custom, labels, slots, pressed) ==
    IF main_choice = SelectMainPath \/ sub_choice = SelectSubPath THEN no_plan
    ELSE student_filters(cat[main_choice][sub_choice],
             curricular_list(cat[main_choice][sub_choice], plan_is_psi),
             pool, plan_is_psi, sub_choice, using_custom, labels, slots, pressed)

\* app.py: what the execution leaves, from the values it computed
app_outcome(curr, cl, avail, sel, total, cg, plan_is_psi, labels, pressed) ==
    [shown |-> TRUE, curr_courses |-> curr, curricular_list |-> cl,
     available_free_courses |-> avail, free_labels |-> free_labels(avail),
     selected_free |-> sel, custom_free |-> <<>>, valid_custom |-> TRUE,
     errors |-> <<>>, current_total |-> total, excess |-> excess_of(total),
     requires_approval |-> plan_is_psi, can_generate_catalogue |-> FALSE,
     can_generate_custom |-> FALSE, can_generate |-> cg,
     messages |-> (IF plan_is_psi /\ total < 60 THEN {"error_psi_minimum"} ELSE {})
                  \cup (IF total > 60 THEN {"error_exceed_60"} ELSE {})
                  \cup (IF cg /\ pressed /\ plan_is_psi
                        THEN {"warning_psi_approval"} ELSE {})
                  \cup (IF ~(cg /\ pressed)
                           /\ Len(labels) # n_free_required(plan_is_psi)
                        THEN {"warning_select_exactly_n"} ELSE {}),
     generated |-> cg /\ pressed,
     ordered_courses |-> IF cg /\ pressed
                         THEN ordered_courses_app(curr, sel, plan_is_psi)
                         ELSE <<>>,
     wm |-> IF cg /\ pressed THEN watermark(plan_is_psi) ELSE "None",
     download |-> cg /\ pressed, relay_result |-> "none"]

\* app.py: the CFU total and can_generate
app_totals(curr, cl, avail, sel, total, plan_is_psi, labels, pressed) ==
    app_outcome(curr, cl, avail, sel, total,
                can_generate(sel, plan_is_psi, total), plan_is_psi, labels, pressed)

\* app.py: the multiselect's courses
app_selection(curr, cl, avail, sel, plan_is_psi, labels, pressed) ==
    app_totals(curr, cl, avail, sel,
               sum_cfu(FIXED_COMPONENTS) + sum_cfu(cl) + sum_cfu(sel),
               plan_is_psi, labels, pressed)

\* app.py: the eligible list
app_free_choice(curr, cl, avail, plan_is_psi, labels, pressed) ==
    app_selection(curr, cl, avail, selected_free(avail, labels),
                  plan_is_psi, labels, pressed)

\* app.py: the curricular codes and names and the sub path's ban set
app_filters(curr, cl, pool, plan_is_psi, sub_choice, labels, pressed) ==
    app_free_choice(curr, cl,
        available_free_courses(pool, curr_codes(cl), curr_names(cl),
                               banned_codes(sub_choice)),
        plan_is_psi, labels, pressed)

\* app.py main(), student workflow (catalogue picker only)
main_app(cat, pool, plan_is_psi, main_choice, sub_choice, labels, pressed) ==
    IF main_choice = SelectMainPath \/ sub_choice = SelectSubPath THEN no_plan
    ELSE app_filters(cat[main_choice][sub_choice],
             curricular_list(cat[main_choice][sub_choice], plan_is_psi),
             pool, plan_is_psi, sub_choice, labels, pressed)

\* ------------------------------------------------- academic year format
\* position of the first "-" of a text that has one
first_hyphen(s) ==
    CHOOSE i \in 1..Len(s) : s[i] = "-" /\ \A j \in 1..(i - 1) : s[j] # "-"

RECURSIVE split_hyphen(_)
\* str.split("-")
split_hyphen(s) ==
    IF "-" \notin Range(s) THEN <<s>>
    ELSE <<SubSeq(s, 1, first_hyphen(s) - 1)>>
         \o split_hyphen(SubSeq(s, first_hyphen(s) + 1, Len(s)))

\* int(): the text without surrounding whitespace and without a leading "+"
\* (a part of split("-") holds no "-")
unsigned(s) == IF strip(s) # <<>> /\ strip(s)[1] = "+" THEN Tail(strip(s)) ELSE strip(s)

\* int() does not raise ValueError: digits only, at least one
int_parses(s) ==
    unsigned(s) # <<>> /\ \A c \in Range(unsigned(s)) : c \in Range(Digits)

digit_value(c) == (CHOOSE i \in 1..10 : Digits[i] = c) - 1

RECURSIVE digits_value(_)
digits_value(t) ==
    IF t = <<>> THEN 0
    ELSE 10 * digits_value(SubSeq(t, 1, Len(t) - 1)) + digit_value(t[Len(t)])

\* int(s) for a text that parses
int_of(s) == digits_value(unsigned(s))

\* str.zfill(2)
zfill2(t) == IF Len(t) < 2 THEN <<"0">> \o t ELSE t

\* mutant of academic_year_to_aa_format: the zero padding is forgotten
academic_year_to_aa_format_no_pad(academic_year) ==
    IF "-" \in Range(academic_year)
    THEN IF /\ Len(split_hyphen(academic_year)) = 2
            /\ int_parses(split_hyphen(academic_year)[2])
         THEN split_hyphen(academic_year)[1] \o <<"/">>
              \o int_to_str(int_of(split_hyphen(academic_year)[2]) % 100)
         ELSE academic_year
    ELSE academic_year

\* '2025-2026' -> '2025/26'; the unpacking of split("-") and int() raise
\* ValueError, which returns the text as it is
academic_year_to_aa_format(academic_year) ==
    IF "-" \in Range(academic_year)
    THEN IF /\ Len(split_hyphen(academic_year)) = 2
            /\ int_parses(split_hyphen(academic_year)[2])
         THEN split_hyphen(academic_year)[1] \o <<"/">>
              \o zfill2(int_to_str(int_of(split_hyphen(academic_year)[2]) % 100))
         ELSE academic_year
    ELSE academic_year

\* texts the conversion is applied to: every text of at most MaxYearLen
\* characters of YearAlphabet, and some full-length ones
MaxYearLen == 3
YearAlphabet == {"2", "0", "7", "-", "/", " "}

RECURSIVE texts_of_len(_)
texts_of_len(n) ==
    IF n = 0 THEN {<<>>}
    ELSE {Append(s, c) : s \in texts_of_len(n - 1), c \in YearAlphabet}

\* the second option of the "Academic Year" selectbox, the default
DefaultAcademicYear == <<"2","0","2","5","-","2","0","2","6">>

YearInputs ==
    UNION {texts_of_len(n) : n \in 0..MaxYearLen}
    \cup {DefaultAcademicYear, <<"2","0","2","5","/","2","6">>, <<"2","0","9","9","-","2","1","0","0">>, <<"2","0","2","5","-","2","0","0","5">>,
          <<"2","0","2","5","-","2","0","2","6","-","2","0","2","7">>, <<"2","0","2","5","-","2","0","x","6">>, <<"2","0","2","5","-"," ","2","0","2","6"," ">>, <<"2","0","2","5","-","+","7">>,
          <<"-","2","0","2","6">>, <<"2","0","2","5","-">>}

\* ------------------------------------------------------ teacher tools
\* main_selected = new_main if new_main else choice
main_selected(choice, new_main) ==
    IF choice = CreateNewMain /\ new_main # "" THEN new_main ELSE choice

\* mutant of teacher_login: the password is not compared
teacher_login_id_only(id_matches, pass_matches) == id_matches

\* teacher_logged_in: the typed id and password are non-empty and match the secrets
teacher_login(id_matches, pass_matches) == id_matches /\ pass_matches

\* the filled-in condition of "Add / Update Sub Path"
spec_form_ok(main_sel, sub_path, f) ==
    /\ main_sel # "" /\ sub_path # ""
    /\ f.c1_name # <<>> /\ f.c2_name # <<>>
    /\ f.c1_code # <<>> /\ f.c2_code # <<>>

\* st.session_state.catalog after "Add / Update Sub Path"
add_sub_path(cat, main_sel, sub_path, f) ==
    IF spec_form_ok(main_sel, sub_path, f)
    THEN LET old == IF main_sel \in DOMAIN cat THEN cat[main_sel] ELSE <<>>
             pair == << make_course(f.c1_name, f.c1_code, f.c1_cfu, "DIETI",
                                    "Second", <<"S","e","c","o","n","d">>, <<>>),
                        make_course(f.c2_name, f.c2_code, f.c2_cfu, "DIETI",
                                    "Second", <<"S","e","c","o","n","d">>, <<>>) >>
         IN  [m \in DOMAIN cat \cup {main_sel} |->
                 IF m = main_sel
                 THEN [s \in DOMAIN old \cup {sub_path} |->
                          IF s = sub_path THEN pair ELSE old[s]]
                 ELSE cat[m]]
    ELSE cat

\* the conditions of "Add Free Choice Course"
free_form_filled(f) == f.name # <<>> /\ f.code # <<>>
\* mutant of free_name_is_new: the names of the pool are not looked at
free_name_is_new_unchecked(pool, f) == TRUE
\* no course of the pool has the name f_name
free_name_is_new(pool, f) == \A i \in 1..Len(pool) : pool[i].name # f.name

\* st.session_state.free_choice_courses after "Add Free Choice Course"
add_free_choice(pool, f) ==
    IF free_form_filled(f) /\ free_name_is_new(pool, f)
    THEN Append(pool, make_course(f.name, f.code, f.cfu, "DIETI", "Second",
                                  <<"S","e","c","o","n","d">>, <<>>))
    ELSE pool

\* -------------------------------------------------------------- state
VARIABLES
    variant,                       \* which script is running: "app2" or "app"
    catalog,                       \* st.session_state.catalog
    free_choice_courses,           \* st.session_state.free_choice_courses
    plan_is_psi,                   \* plan mode radio
    main_choice,                   \* main path selectbox
    sub_choice,                    \* sub path selectbox
    using_custom,                  \* free-choice mode radio (app2.py)
    free_choice_selection_labels,  \* multiselect value, in order of choice
    custom_slots,                  \* the cust_*_{i} widgets (app2.py)
    run,                           \* the locals left by the last execution
    academic_year,                 \* the text given to academic_year_to_aa_format
    aa,                            \* what academic_year_to_aa_format returned
    teacher_msg,                   \* st.success / st.warning / st.error of the teacher tools
    other_session,                 \* st.session_state of a second browser session
    semester,                      \* the semester text given to make_course
    sem_norm,                      \* what make_course stored for it
    sidebar                        \* the teacher login inputs: do they match the secrets

vars == <<variant, catalog, free_choice_courses,
          plan_is_psi, main_choice, sub_choice, using_custom,
          free_choice_selection_labels, custom_slots, run,
          academic_year, aa, teacher_msg, other_session, semester, sem_norm,
          sidebar>>

default_slots == <<DefaultSlot, DefaultSlot, DefaultSlot>>

\* the student workflow of the running script
script(cat, pool, psi, m, s, custom, labels, slots, pressed) ==
    IF variant = "app2"
    THEN main_app2(cat, pool, psi, m, s, custom, labels, slots, pressed)
    ELSE main_app(cat, pool, psi, m, s, labels, pressed)

\* One re-execution of the script.  The *2 arguments are the session state
\* after the teacher section and the widget values as the browser holds
\* them.  A widget that is not rendered loses its value; a key-less widget
\* whose options changed is a new widget, which may come back with its
\* default (keepM, keepS, keepL choose between the two outcomes).

\* the values the execution ends with; the script has run to the multiselect
\* with the browser's labels (r0) and runs on with the labels it keeps
settled(cat2, pool2, psi2, m, s, c, labels2, labels, slots, pressed, r0) ==
    [catalog |-> cat2, pool |-> pool2,
     psi |-> psi2, main |-> m, sub |-> s, custom |-> c, labels |-> labels,
     slots |-> slots,
     run |-> IF labels = labels2 THEN r0
             ELSE script(cat2, pool2, psi2, m, s, c, labels, slots, pressed)]

\* the multiselect: labels that are still options are kept when the widget
\* is the same one (same options, same max_selections) or came back with
\* its value
settle_labels(cat2, pool2, psi2, m, s, c, labels2, slots, pressed, keepL, r0) ==
    settled(cat2, pool2, psi2, m, s, c, labels2,
        IF /\ s # SelectSubPath /\ ~c
           /\ \/ /\ run.shown /\ ~using_custom
                 /\ run.free_labels = r0.free_labels /\ plan_is_psi = psi2
              \/ /\ keepL
                 /\ Len(SelectSeq(labels2, LAMBDA l : l \in Range(r0.free_labels)))
                       <= n_free_required(psi2)
        THEN SelectSeq(labels2, LAMBDA l : l \in Range(r0.free_labels))
        ELSE <<>>,
        slots, pressed, r0)

\* the free-choice mode radio and the manual-entry widgets that are rendered
settle_mode(cat2, pool2, psi2, m, s, c, labels2, slots2, pressed, keepL) ==
    settle_labels(cat2, pool2, psi2, m, s, c, labels2,
        IF c THEN [i \in 1..3 |-> IF i <= n_free_required(psi2)
                                  THEN slots2[i] ELSE DefaultSlot]
        ELSE default_slots,
        pressed, keepL,
        script(cat2, pool2, psi2, m, s, c, labels2,
            IF c THEN [i \in 1..3 |-> IF i <= n_free_required(psi2)
                                      THEN slots2[i] ELSE DefaultSlot]
            ELSE default_slots,
            pressed))

\* the sub path selectbox
settle_sub(cat2, pool2, psi2, m, s, custom2, labels2, slots2, pressed, keepL) ==
    settle_mode(cat2, pool2, psi2, m, s,
        variant = "app2" /\ s # SelectSubPath /\ custom2,
        labels2, slots2, pressed, keepL)

\* the main path selectbox
settle_main(cat2, pool2, psi2, m, sub2, custom2, labels2, slots2, pressed, keepS, keepL) ==
    settle_sub(cat2, pool2, psi2, m,
        IF /\ m # SelectMainPath
           /\ sub2 \in DOMAIN cat2[m]
           /\ \/ /\ m = main_choice
                 /\ DOMAIN cat2[m] = (IF main_choice \in DOMAIN catalog
                                      THEN DOMAIN catalog[main_choice] ELSE {})
              \/ keepS
        THEN sub2 ELSE SelectSubPath,
        custom2, labels2, slots2, pressed, keepL)

settle(cat2, pool2, psi2, main2, sub2, custom2, labels2, slots2, pressed, keepM, keepS, keepL) ==
    settle_main(cat2, pool2, psi2,
        IF main2 \in DOMAIN cat2 /\ (DOMAIN cat2 = DOMAIN catalog \/ keepM)
        THEN main2 ELSE SelectMainPath,
        sub2, custom2, labels2, slots2, pressed, keepS, keepL)

reruns(cat2, pool2, psi2, main2, sub2, custom2, labels2, slots2, pressed) ==
    LET same_mains == DOMAIN cat2 = DOMAIN catalog
        same_subs == \/ main2 \notin DOMAIN cat2
                     \/ /\ main2 \in DOMAIN catalog
                        /\ DOMAIN cat2[main2] = DOMAIN catalog[main2]
        same_picker == \/ labels2 = <<>>
                       \/ /\ cat2 = catalog /\ pool2 = free_choice_courses
                          /\ psi2 = plan_is_psi /\ main2 = main_choice
                          /\ sub2 = sub_choice /\ custom2 = using_custom
    IN  { settle(cat2, pool2, psi2, main2, sub2, custom2, labels2,
                 slots2, pressed, keepM, keepS, keepL) :
            keepM \in (IF same_mains THEN {TRUE} ELSE BOOLEAN),
            keepS \in (IF same_subs THEN {TRUE} ELSE BOOLEAN),
            keepL \in (IF same_picker THEN {TRUE} ELSE BOOLEAN) }

\* the session state, widgets and locals an execution ends with
session_becomes(r) ==
    /\ catalog' = r.catalog
    /\ free_choice_courses' = r.pool
    /\ plan_is_psi' = r.psi
    /\ main_choice' = r.main
    /\ sub_choice' = r.sub
    /\ using_custom' = r.custom
    /\ free_choice_selection_labels' = r.labels
    /\ custom_slots' = r.slots
    /\ run' = r.run
    /\ UNCHANGED <<variant, academic_year, aa, semester, sem_norm>>

\* an execution of this session in which the teacher's messages are not
\* followed; it touches no other session
becomes(r) ==
    /\ session_becomes(r)
    /\ UNCHANGED <<teacher_msg, other_session, sidebar>>

\* no message of the teacher tools is on the page
no_message == [level |-> "none", text |-> "none"]

\* a browser session that has not run the script yet
not_started == [started |-> FALSE, catalog |-> <<>>, free_choice_courses |-> <<>>]

\* the login inputs of the sidebar are empty
nothing_typed == [id_ok |-> FALSE, pass_ok |-> FALSE]

\* make_course has not been called on the semester text
not_normalized == [calls |-> 0, once |-> <<>>, twice |-> <<>>]

\* the default of the semester parameter and of the teacher's selectboxes
DefaultSemester == <<"S","e","c","o","n","d">>

\* no conversion has been made
not_converted == [calls |-> 0, once |-> <<>>, twice |-> <<>>]

\* the session after the first execution: seeded session state, widgets at
\* their defaults
first_run ==
    /\ variant \in {"app2", "app"}
    /\ catalog = SeedCatalog
    /\ free_choice_courses = SeedFreeChoice
    /\ plan_is_psi = FALSE
    /\ main_choice = SelectMainPath
    /\ sub_choice = SelectSubPath
    /\ using_custom = FALSE
    /\ free_choice_selection_labels = <<>>
    /\ custom_slots = default_slots
    /\ run = no_plan

Init ==
    /\ first_run
    /\ academic_year = DefaultAcademicYear
    /\ aa = not_converted
    /\ teacher_msg = no_message
    /\ other_session = not_started
    /\ semester = DefaultSemester
    /\ sem_norm = not_normalized
    /\ sidebar = nothing_typed

\* sub paths whose entry differs from the seed
edited_sub_paths(cat) ==
    { <<m, s>> \in UNION {{<<m2, s2>> : s2 \in DOMAIN cat[m2]} : m2 \in DOMAIN cat} :
        \/ m \notin DOMAIN SeedCatalog
        \/ s \notin DOMAIN SeedCatalog[m]
        \/ cat[m][s] # SeedCatalog[m][s] }

\* ------------------------------------------------------------ actions
\* "Add / Update Sub Path" is submitted
AddOrReplaceSubPath(teacher_logged_in, f) ==
    /\ teacher_logged_in
    /\ f.choice \in DOMAIN catalog \cup {CreateNewMain}
    /\ LET main_sel == main_selected(f.choice, f.new_main)
           cat2 == add_sub_path(catalog, main_sel, f.sub_path, f)
       IN  /\ Cardinality(edited_sub_paths(cat2)) <= MaxSubPathEdits
           /\ \E r \in reruns(cat2, free_choice_courses, plan_is_psi,
                              main_choice, sub_choice, using_custom,
                              free_choice_selection_labels, custom_slots, FALSE) :
                 becomes(r)

\* "Add Free Choice Course" is submitted
AddFreeChoiceCourse(teacher_logged_in, f) ==
    /\ teacher_logged_in
    /\ LET pool2 == add_free_choice(free_choice_courses, f)
       IN  /\ Len(pool2) <= Len(SeedFreeChoice) + MaxAdded
           /\ \E r \in reruns(catalog, pool2, plan_is_psi,
                              main_choice, sub_choice, using_custom,
                              free_choice_selection_labels, custom_slots, FALSE) :
                 becomes(r)

ChoosePlanMode(psi) ==
    /\ psi # plan_is_psi
    /\ \E r \in reruns(catalog, free_choice_courses,
                       psi, main_choice, sub_choice, using_custom,
                       free_choice_selection_labels, custom_slots, FALSE) :
          becomes(r)

ChooseMainPath(m) ==
    /\ m # main_choice
    /\ \E r \in reruns(catalog, free_choice_courses,
                       plan_is_psi, m, SelectSubPath, using_custom,
                       free_choice_selection_labels, custom_slots, FALSE) :
          becomes(r)

ChooseSubPath(s) ==
    /\ main_choice # SelectMainPath
    /\ s # sub_choice
    /\ \E r \in reruns(catalog, free_choice_courses,
                       plan_is_psi, main_choice, s, using_custom,
                       free_choice_selection_labels, custom_slots, FALSE) :
          becomes(r)

\* app2.py: the free-choice mode radio
ChooseFreeChoiceMode(custom) ==
    /\ variant = "app2"
    /\ run.shown
    /\ custom # using_custom
    /\ \E r \in reruns(catalog, free_choice_courses,
                       plan_is_psi, main_choice, sub_choice, custom,
                       free_choice_selection_labels, custom_slots, FALSE) :
          becomes(r)

\* the student adds a label to the multiselect (max_selections)
SelectFreeCourse(l) ==
    /\ run.shown /\ ~using_custom
    /\ l \in Range(run.free_labels)
    /\ l \notin Range(free_choice_selection_labels)
    /\ Len(free_choice_selection_labels) < n_free_required(plan_is_psi)
    /\ \E r \in reruns(catalog, free_choice_courses,
                       plan_is_psi, main_choice, sub_choice, using_custom,
                       Append(free_choice_selection_labels, l), custom_slots,
                       FALSE) :
          becomes(r)

\* the student removes a label from the multiselect
DeselectFreeCourse(l) ==
    /\ run.shown /\ ~using_custom
    /\ l \in Range(free_choice_selection_labels)
    /\ \E r \in reruns(catalog, free_choice_courses,
                       plan_is_psi, main_choice, sub_choice, using_custom,
                       SelectSeq(free_choice_selection_labels, LAMBDA x : x # l),
                       custom_slots, FALSE) :
          becomes(r)

\* app2.py: the student fills in manual slot i
EditCustomSlot(i, w) ==
    /\ run.shown /\ using_custom
    /\ i <= n_free_required(plan_is_psi)
    /\ custom_slots[i] # w
    /\ \E r \in reruns(catalog, free_choice_courses,
                       plan_is_psi, main_choice, sub_choice, using_custom,
                       free_choice_selection_labels,
                       [custom_slots EXCEPT ![i] = w], FALSE) :
          becomes(r)

\* the execution in which "Generate PDF" is pressed, with the relay's part
\* (app.py offers the download without a relay)
relayed(r, response) ==
    IF variant = "app2" THEN [r EXCEPT !.run = after_relay(r.run, response)] ELSE r

\* the student presses "Generate PDF" (rendered only when generation is permitted)
PressGenerate(response) ==
    /\ run.can_generate
    /\ \E r \in reruns(catalog, free_choice_courses,
                       plan_is_psi, main_choice, sub_choice, using_custom,
                       free_choice_selection_labels, custom_slots, TRUE) :
          becomes(relayed(r, response))

Next ==
    \/ \E id_ok \in BOOLEAN, pass_ok \in BOOLEAN, f \in SpecFormInputs :
          AddOrReplaceSubPath(teacher_login(id_ok, pass_ok), f)
    \/ \E id_ok \in BOOLEAN, pass_ok \in BOOLEAN, f \in FreeFormInputs :
          AddFreeChoiceCourse(teacher_login(id_ok, pass_ok), f)
    \/ \E psi \in BOOLEAN : ChoosePlanMode(psi)
    \/ \E m \in DOMAIN catalog \cup {SelectMainPath} : ChooseMainPath(m)
    \/ \E s \in (IF main_choice \in DOMAIN catalog
                 THEN DOMAIN catalog[main_choice] ELSE {}) \cup {SelectSubPath} :
          ChooseSubPath(s)
    \/ \E custom \in BOOLEAN : ChooseFreeChoiceMode(custom)
    \/ \E l \in Range(run.free_labels) : SelectFreeCourse(l)
    \/ \E l \in Range(free_choice_selection_labels) : DeselectFreeCourse(l)
    \/ \E i \in 1..3 : \E w \in SlotInputs(i) : EditCustomSlot(i, w)
    \/ \E response \in RelayResponses : PressGenerate(response)

Spec == Init /\ [][Next]_vars

\* ============================================================== claims
\* In the formulas below the expected values are recomputed from the
\* session state and the widget values, not read back from the run.

\* C1: for every pool, sub path and plan mode, a pool course is in the
\* eligible list iff its trimmed, case-folded code equals the code of no
\* course of the active curricular set, its trimmed, case-folded name equals
\* the name of none of them, and its code is not banned for the sub path.
C1_EligibleIff ==
    (run.shown /\ ~using_custom) =>
        LET cur == catalog[main_choice][sub_choice]
            active == IF plan_is_psi THEN {cur[1]} ELSE {cur[1], cur[2]}
            ban == IF sub_choice \in DOMAIN banned_by_subpath
                   THEN banned_by_subpath[sub_choice] ELSE {}
        IN  \A i \in 1..Len(free_choice_courses) :
              LET fc == free_choice_courses[i]
              IN  (fc \in Range(run.available_free_courses)) <=>
                    /\ \A c \in active : lower(strip(c.code)) # lower(strip(fc.code))
                    /\ \A c \in active : lower(strip(c.name)) # lower(strip(fc.name))
                    /\ \A b \in ban : lower(strip(b)) # lower(strip(fc.code))

\* C1 witness: a pool course is left out of the list because of its name
\* alone (its code matches no curricular code and is not banned), and the
\* match needs the trim and the case fold.
C1_Witness ==
    /\ run.shown /\ ~using_custom
    /\ \E fc \in Range(free_choice_courses) :
          /\ fc \notin Range(run.available_free_courses)
          /\ \A c \in Range(run.curricular_list) :
                lower(strip(c.code)) # lower(strip(fc.code)) /\ c.name # fc.name
          /\ \A b \in banned_codes(sub_choice) : lower(strip(b)) # lower(strip(fc.code))

\* C2: for a sub path with a non-empty ban set, after any teacher edits, no
\* course whose normalized code is banned is in the eligible list.
C2_BannedNeverEligible ==
    (run.shown /\ ~using_custom /\ sub_choice \in DOMAIN banned_by_subpath) =>
        \A fc \in Range(run.available_free_courses) :
            \A b \in banned_by_subpath[sub_choice] :
                lower(strip(fc.code)) # lower(strip(b))

\* C2 witness: after a teacher added a course, the pool holds a course whose
\* code is banned for the chosen sub path only after normalization and that
\* collides with no curricular course.
C2_Witness ==
    /\ run.shown /\ ~using_custom /\ sub_choice \in DOMAIN banned_by_subpath
    /\ Len(free_choice_courses) > Len(SeedFreeChoice)
    /\ \E fc \in Range(free_choice_courses) :
          /\ fc.code \notin banned_by_subpath[sub_choice]
          /\ \E b \in banned_by_subpath[sub_choice] :
                lower(strip(fc.code)) = lower(strip(b))
          /\ \A c \in Range(run.curricular_list) :
                /\ lower(strip(c.code)) # lower(strip(fc.code))
                /\ lower(strip(c.name)) # lower(strip(fc.name))

\* C3: app2.py, with total = curricular + free + fixed and
\* excess = max(0, total - 60): whenever excess > 6 generation is not
\* permitted, in Standard and PSI mode, catalogue and manual entry alike.
C3_HardOverageBlocks ==
    (variant = "app2" /\ run.shown) =>
        LET cur == catalog[main_choice][sub_choice]
            curricularTotal == IF plan_is_psi THEN cur[1].cfu
                               ELSE cur[1].cfu + cur[2].cfu
            free == IF using_custom THEN run.custom_free ELSE run.selected_free
            freeTotal == sum_cfu(free)
            total == curricularTotal + freeTotal + 30
            excess == IF total > 60 THEN total - 60 ELSE 0
        IN  /\ run.current_total = total
            /\ run.excess = excess
            /\ excess > 6 => (~run.can_generate /\ ~run.generated)

\* C3 witness: manual entries that pass every manual check, with a total
\* above 66, and no Generate button.
C3_Witness ==
    /\ variant = "app2" /\ run.shown /\ using_custom
    /\ run.valid_custom /\ run.errors = <<>>
    /\ run.current_total > 66
    /\ ~run.can_generate

\* C4: app2.py: when 0 < excess <= 6 and the other conditions hold (exactly n
\* free-choice courses; in manual mode every entry has name, code and dept,
\* no "italian" in the name, no collision with the curricular set, the ban
\* list or another entry), generation is permitted and the overage is shown
\* as a warning, not as an error.
C4_SoftOverageAllowed ==
    (variant = "app2" /\ run.shown) =>
        LET n == IF plan_is_psi THEN 3 ELSE 2
            cur == catalog[main_choice][sub_choice]
            active == IF plan_is_psi THEN {cur[1]} ELSE {cur[1], cur[2]}
            ban == IF sub_choice \in DOMAIN banned_by_subpath
                   THEN banned_by_subpath[sub_choice] ELSE {}
            norm(s) == lower(strip(s))
            entry_ok(i) ==
                LET w == custom_slots[i]
                IN  /\ w.name # <<>> /\ w.code # <<>> /\ w.dept # ""
                    /\ ~contains(lower(w.name), <<"i","t","a","l","i","a","n">>)
                    /\ \A c \in active : norm(c.code) # norm(w.code)
                    /\ \A c \in active : norm(c.name) # norm(w.name)
                    /\ \A b \in ban : norm(b) # norm(w.code)
                    /\ \A j \in (1..n) \ {i} :
                          /\ norm(custom_slots[j].code) # norm(w.code)
                          /\ norm(custom_slots[j].name) # norm(w.name)
            others_met == IF using_custom THEN \A i \in 1..n : entry_ok(i)
                          ELSE Len(run.selected_free) = n
            total == run.current_total
        IN  (60 < total /\ total <= 66 /\ others_met) =>
                /\ run.can_generate
                /\ "warning_exceed_60" \in run.messages
                /\ run.messages \cap {"error_exceed_60", "error_psi_minimum",
                                      "error_manual_issues", "warning_reduce_to_66",
                                      "warning_complete_custom",
                                      "warning_select_exactly_n"} = {}

\* C4 witness: a manual-entry plan with 60 < total <= 66 has been generated.
C4_Witness ==
    /\ variant = "app2" /\ using_custom /\ run.generated
    /\ run.current_total > 60 /\ run.current_total <= 66
    /\ "warning_exceed_60" \in run.messages

\* C5 (as stated): in PSI mode generation is not permitted while total < 60,
\* and every plan generated in PSI mode has 60 <= total <= 66.
C5_PsiFloorAndRange ==
    (run.shown /\ plan_is_psi) =>
        /\ run.current_total < 60 => (~run.can_generate /\ ~run.generated)
        /\ run.generated => (60 <= run.current_total /\ run.current_total <= 66)

\* C6: app2.py, catalogue mode, sub path chosen: generation is permitted iff
\* the number of selected free-choice courses is n (3 in PSI, 2 in Standard)
\* and the budget does not block (not PSI below 60, not above 66).
C6_CatalogueAdmission ==
    (variant = "app2" /\ run.shown /\ ~using_custom) =>
        LET n == IF plan_is_psi THEN 3 ELSE 2
            cur == catalog[main_choice][sub_choice]
            total == (IF plan_is_psi THEN cur[1].cfu ELSE cur[1].cfu + cur[2].cfu)
                     + sum_cfu(run.selected_free) + 30
            blocking == (plan_is_psi /\ total < 60) \/ total > 66
        IN  run.can_generate <=> (Len(run.selected_free) = n /\ ~blocking)

\* C6 witness: a PSI catalogue selection of three courses has been admitted
\* and generated.
C6_Witness ==
    /\ variant = "app2" /\ ~using_custom /\ plan_is_psi
    /\ Len(run.selected_free) = 3 /\ run.generated

\* C7: app2.py: every generated plan requires approval when it is PSI and
\* when the free-choice courses were typed in; a Standard catalogue plan with
\* excess 0 does not; the watermark text is non-null exactly when approval is
\* required.
C7_ApprovalFlag ==
    (variant = "app2" /\ run.generated) =>
        /\ plan_is_psi => run.requires_approval
        /\ using_custom => run.requires_approval
        /\ (~plan_is_psi /\ ~using_custom /\ run.current_total <= 60)
              => ~run.requires_approval
        /\ (run.wm # "None") <=> run.requires_approval

\* C7 witness (scenario A): Standard, catalogue mode, 12 + 6 curricular, two
\* 6-CFU free-choice courses, total 60, generated without approval or
\* watermark.
C7_Witness ==
    /\ variant = "app2" /\ run.generated /\ ~plan_is_psi /\ ~using_custom
    /\ catalog[main_choice][sub_choice][1].cfu = 12
    /\ catalog[main_choice][sub_choice][2].cfu = 6
    /\ \A c \in Range(run.selected_free) : c.cfu = 6
    /\ run.current_total = 60
    /\ ~run.requires_approval /\ run.wm = "None"

\* C8: every generated plan has exactly 7 rows: in PSI mode CurricularI,
\* three free-choice courses, the three fixed components; in Standard mode
\* CurricularI, CurricularII, two free-choice courses, the three fixed
\* components; the fixed triple is the same 6 + 16 + 8 = 30 CFU in every plan.
C8_CompositionShape ==
    run.generated =>
        LET cur == catalog[main_choice][sub_choice]
            free == IF using_custom THEN run.custom_free ELSE run.selected_free
            rows == run.ordered_courses
        IN  /\ Len(rows) = 7
            /\ rows[1] = cur[1]
            /\ IF plan_is_psi
               THEN Len(free) = 3 /\ rows[2] = free[1] /\ rows[3] = free[2]
                    /\ rows[4] = free[3]
               ELSE Len(free) = 2 /\ rows[2] = cur[2] /\ rows[3] = free[1]
                    /\ rows[4] = free[2]
            /\ <<rows[5], rows[6], rows[7]>> = FIXED_COMPONENTS
            /\ <<rows[5].cfu, rows[6].cfu, rows[7].cfu>> = <<6, 16, 8>>
            /\ <<rows[5].code, rows[6].code, rows[7].code>>
                  = <<<<"1","2","5","6","8">>, <<"U","2","8","4","8">>, <<"U","4","3","1","9">>>>

\* C8 witness: a Standard plan with manual entries and a PSI plan's
\* counterpart in app.py are both covered; here a generated app.py PSI plan.
C8_Witness ==
    /\ variant = "app" /\ run.generated /\ plan_is_psi
    /\ Len(run.ordered_courses) = 7

\* C9 (as stated): in every generated plan no two of the 7 rows have the
\* same code or the same name after trim and case fold.
C9_NoDuplicateRows ==
    run.generated =>
        \A i \in 1..Len(run.ordered_courses) :
            \A j \in 1..Len(run.ordered_courses) :
                i < j =>
                    /\ lower(strip(run.ordered_courses[i].code))
                          # lower(strip(run.ordered_courses[j].code))
                    /\ lower(strip(run.ordered_courses[i].name))
                          # lower(strip(run.ordered_courses[j].name))

\* C10: app2.py, manual mode: if the name of a typed entry contains
\* "italian" in any letter case, generation is not permitted whatever the
\* rest, and an error naming that slot is reported.
C10_ItalianBlocks ==
    (variant = "app2" /\ run.shown /\ using_custom) =>
        \A i \in 1..(IF plan_is_psi THEN 3 ELSE 2) :
            contains(lower(custom_slots[i].name), <<"i","t","a","l","i","a","n">>) =>
                /\ ~run.can_generate /\ ~run.generated
                /\ [slot |-> i, rule |-> "italian"] \in Range(run.errors)
                /\ "error_manual_issues" \in run.messages

\* C10 witness: the restricted name is the only thing wrong: every typed
\* field is filled, the only errors are "italian" ones, and the total is
\* within 60..66.
C10_Witness ==
    /\ variant = "app2" /\ run.shown /\ using_custom
    /\ \E i \in 1..(IF plan_is_psi THEN 3 ELSE 2) :
          /\ contains(lower(custom_slots[i].name), <<"i","t","a","l","i","a","n">>)
          /\ ~contains(custom_slots[i].name, <<"i","t","a","l","i","a","n">>)
    /\ \A i \in 1..(IF plan_is_psi THEN 3 ELSE 2) :
          custom_slots[i].name # <<>> /\ custom_slots[i].code # <<>>
          /\ custom_slots[i].dept # ""
    /\ \A e \in Range(run.errors) : e.rule = "italian"
    /\ run.current_total >= 60 /\ run.current_total <= 66
    /\ ~run.can_generate

\* C11 (as stated): app2.py, manual mode: if two of the n typed courses have
\* the same code or the same name after trim and case fold, generation is
\* not permitted, whichever of the two comes first.
C11_SiblingDuplicatesBlock ==
    (variant = "app2" /\ run.shown /\ using_custom) =>
        \A i \in 1..(IF plan_is_psi THEN 3 ELSE 2) :
            \A j \in 1..(IF plan_is_psi THEN 3 ELSE 2) :
                (/\ i # j
                 /\ \/ lower(strip(custom_slots[i].code))
                          = lower(strip(custom_slots[j].code))
                    \/ lower(strip(custom_slots[i].name))
                          = lower(strip(custom_slots[j].name)))
                => (~run.can_generate /\ ~run.generated)

\* C12 (as stated): app2.py, manual mode: generation is permitted only if
\* every one of the n typed entries has a name, a code and a dept that are
\* non-empty, also after trimming.
C12_RequiredFields ==
    (variant = "app2" /\ run.shown /\ using_custom /\ run.can_generate) =>
        \A i \in 1..(IF plan_is_psi THEN 3 ELSE 2) :
            /\ strip(custom_slots[i].name) # <<>>
            /\ strip(custom_slots[i].code) # <<>>
            /\ custom_slots[i].dept # ""

\* C13 (as stated): app2.py, manual mode: one pass checks all n slots, and
\* every violated constraint of every slot (empty required field, restricted
\* name, curricular collision, banned code, sibling duplicate) has its own
\* error naming the slot and the rule.
C13_EveryViolationReported ==
    (variant = "app2" /\ run.shown /\ using_custom) =>
        \A i \in 1..(IF plan_is_psi THEN 3 ELSE 2) :
            /\ (\/ custom_slots[i].name = <<>> \/ custom_slots[i].code = <<>>
                \/ custom_slots[i].dept = "")
               => \E e \in Range(run.errors) :
                     e.slot = i /\ e.rule = "required_field"
            /\ contains(lower(custom_slots[i].name), <<"i","t","a","l","i","a","n">>)
               => [slot |-> i, rule |-> "italian"] \in Range(run.errors)
            /\ (/\ strip(custom_slots[i].code) # <<>>
                /\ \E c \in Range(run.curricular_list) :
                      upper(strip(c.code)) = upper(strip(custom_slots[i].code)))
               => [slot |-> i, rule |-> "curricular_code"] \in Range(run.errors)
            /\ (/\ strip(custom_slots[i].name) # <<>>
                /\ \E c \in Range(run.curricular_list) :
                      lower(strip(c.name)) = lower(strip(custom_slots[i].name)))
               => [slot |-> i, rule |-> "curricular_name"] \in Range(run.errors)
            /\ (/\ sub_choice \in DOMAIN banned_by_subpath
                /\ upper(strip(custom_slots[i].code))
                      \in banned_by_subpath[sub_choice])
               => [slot |-> i, rule |-> "banned_code"] \in Range(run.errors)
            /\ (/\ strip(custom_slots[i].code) # <<>>
                /\ \E j \in 1..(i - 1) :
                      upper(strip(custom_slots[j].code))
                         = upper(strip(custom_slots[i].code)))
               => [slot |-> i, rule |-> "duplicate_code"] \in Range(run.errors)
            /\ (/\ strip(custom_slots[i].name) # <<>>
                /\ \E j \in 1..(i - 1) :
                      lower(strip(custom_slots[j].name))
                         = lower(strip(custom_slots[i].name)))
               => [slot |-> i, rule |-> "duplicate_name"] \in Range(run.errors)

\* C14: raising the cfu of one course of the plan (curricular or free
\* choice), the others held fixed, never lowers excess and never turns a
\* hard overage (excess > 6, shown as an error by app2.py) into no overage.
C14_BudgetMonotone ==
    run.shown =>
        LET rows == run.curricular_list
                    \o (IF using_custom THEN run.custom_free ELSE run.selected_free)
        IN  \A k \in 1..Len(rows) : \A d \in 1..MaxRaise :
              LET raised == [rows EXCEPT ![k].cfu = @ + d]
                  total2 == sum_cfu(FIXED_COMPONENTS) + sum_cfu(raised)
              IN  /\ total2 = run.current_total + d
                  /\ excess_of(total2) >= run.excess
                  /\ run.excess > 6 => excess_of(total2) > 6
                  /\ (variant = "app2" /\ "error_exceed_60" \in run.messages)
                        => "error_exceed_60"
                              \in budget_messages(plan_is_psi, total2, excess_of(total2))

\* C14 witness: a hard overage with free-choice courses in the plan, in
\* app2.py.
C14_Witness ==
    /\ variant = "app2" /\ run.shown /\ run.excess > 6
    /\ "error_exceed_60" \in run.messages
    /\ Len(IF using_custom THEN run.custom_free ELSE run.selected_free) > 0

\* C15 is stated after the academic-year specification, C17, C18 and C19
\* after the teacher specification.

\* C16: app2.py: once Generate is pressed on an admitted plan, the download
\* is offered whether the relay succeeds, returns an error result or raises.
C16_RelayBestEffort ==
    (variant = "app2" /\ run.generated) =>
        /\ run.relay_result \in {"ok", "error", "swallowed"}
        /\ run.download

\* C16 witness: the relay raised, the exception was swallowed and the
\* download is offered.
C16_Witness ==
    /\ variant = "app2" /\ run.generated
    /\ run.relay_result = "swallowed" /\ run.download
\* C20: in every generated plan, from the catalogue or typed in, whatever
\* plan-mode changes, sub-path changes and teacher edits came before, each
\* free-choice row has a normalised code and a normalised name that no
\* curricular course of the plan has, and a code that is not banned for
\* the plan's sub path.
C20_AdmittedPlansEligible ==
    run.generated =>
        LET cur == catalog[main_choice][sub_choice]
            active == IF plan_is_psi THEN {cur[1]} ELSE {cur[1], cur[2]}
            ban == IF sub_choice \in DOMAIN banned_by_subpath
                   THEN banned_by_subpath[sub_choice] ELSE {}
            rows == run.ordered_courses
        IN  \A k \in (IF plan_is_psi THEN 2 ELSE 3)..4 :
               /\ \A c \in active : lower(strip(c.code)) # lower(strip(rows[k].code))
               /\ \A c \in active : lower(strip(c.name)) # lower(strip(rows[k].name))
               /\ \A b \in ban : lower(strip(b)) # lower(strip(rows[k].code))

\* C20 witness: a plan is generated from the catalogue for a sub path whose
\* curricular courses the teacher has replaced, while a course of the pool
\* is not eligible for that sub path.
C20_Witness ==
    /\ run.generated /\ ~using_custom
    /\ main_choice \in DOMAIN SeedCatalog
    /\ sub_choice \in DOMAIN SeedCatalog[main_choice]
    /\ catalog[main_choice][sub_choice] # SeedCatalog[main_choice][sub_choice]
    /\ Len(run.available_free_courses) < Len(free_choice_courses)

\* C21: in catalogue mode the free-choice courses of the composed plan are
\* in the order in which the student chose their labels, they are pairwise
\* distinct, and there are as many of them as labels chosen.
C21_FreeChoiceOrder ==
    (run.shown /\ ~using_custom) =>
        /\ Len(run.selected_free) = Len(free_choice_selection_labels)
        /\ \A i, j \in 1..Len(run.selected_free) :
              run.selected_free[i] = run.selected_free[j] => i = j
        /\ \A i \in 1..Len(run.selected_free) :
              i <= Len(free_choice_selection_labels)
                 => course_label(run.selected_free[i]) = free_choice_selection_labels[i]

\* C22: the eligible list is a subsequence of the free-choice pool in the
\* pool's order; an execution that computes it for another plan mode, sub
\* path or selection leaves the pool and the catalog unchanged (the ban
\* rules are a literal of the script); and a computation with the
\* same pool, catalog, sub path and plan mode as the one before gives the
\* same list.
C22_FilterPreservesOrder ==
    /\ [](run.shown /\ ~using_custom =>
            /\ \A c \in Range(run.available_free_courses) :
                  c \in Range(free_choice_courses)
            /\ \A i, j \in 1..Len(run.available_free_courses) :
                  i < j =>
                    \E k, l \in 1..Len(free_choice_courses) :
                       /\ k < l
                       /\ free_choice_courses[k] = run.available_free_courses[i]
                       /\ free_choice_courses[l] = run.available_free_courses[j])
    /\ [][(\/ plan_is_psi' # plan_is_psi
           \/ sub_choice' \notin {sub_choice, SelectSubPath}
           \/ Len(free_choice_selection_labels') > Len(free_choice_selection_labels))
            => /\ free_choice_courses' = free_choice_courses
               /\ catalog' = catalog]_vars
    /\ [][(/\ run.shown /\ ~using_custom /\ run'.shown /\ ~using_custom'
           /\ free_choice_courses' = free_choice_courses /\ catalog' = catalog
           /\ main_choice' = main_choice /\ sub_choice' = sub_choice
           /\ plan_is_psi' = plan_is_psi)
            => run'.available_free_courses = run.available_free_courses]_vars

\* C22 witness: the eligible list is a proper part of the pool with at
\* least two courses, and one of them has been selected.
C22_Witness ==
    /\ run.shown /\ ~using_custom
    /\ Len(run.available_free_courses) >= 2
    /\ Len(run.available_free_courses) < Len(free_choice_courses)
    /\ free_choice_selection_labels # <<>>

\* C23: when a catalogue-mode selection is not admitted, exactly one
\* rejection reason is reported (wrong free-choice count, or PSI below 60,
\* or hard overage), never two at once, and the count comes first: a
\* wrong count is the reason whenever the count is wrong.
C23_SingleReason ==
    (variant = "app2" /\ run.shown /\ ~using_custom /\ ~run.can_generate) =>
        LET count == "warning_select_exactly_n" \in run.messages
            floor == "error_psi_minimum" \in run.messages
            over == \/ "error_exceed_60" \in run.messages
                    \/ "warning_reduce_to_66" \in run.messages
        IN  /\ Cardinality({r \in {"count", "floor", "over"} :
                              \/ r = "count" /\ count
                              \/ r = "floor" /\ floor
                              \/ r = "over" /\ over}) = 1
            /\ Len(run.selected_free) # n_free_required(plan_is_psi) => count

\* C24: whenever a sub path is chosen and generation is not permitted, at
\* least one message that states a reason is shown (wrong count, incomplete
\* or invalid manual entries, PSI below 60, more than 66 CFU), and each
\* such reason shown is true; the courses the student chose are not
\* altered: the typed courses are used as typed, the catalogue courses are
\* the pool's courses of the chosen labels, and pressing Generate changes
\* no choice.
C24_NoSilentRejection ==
    /\ [](run.shown /\ ~run.can_generate =>
            /\ \/ "warning_select_exactly_n" \in run.messages
               \/ "warning_complete_custom" \in run.messages
               \/ "error_manual_issues" \in run.messages
               \/ "error_psi_minimum" \in run.messages
               \/ "warning_reduce_to_66" \in run.messages
            /\ "warning_select_exactly_n" \in run.messages
                  => Len(run.selected_free) # n_free_required(plan_is_psi)
            /\ "error_psi_minimum" \in run.messages
                  => plan_is_psi /\ run.current_total < 60
            /\ "warning_reduce_to_66" \in run.messages => run.current_total > 66)
    /\ [](run.shown /\ using_custom =>
            \A i \in 1..n_free_required(plan_is_psi) :
               /\ run.custom_free[i].name = custom_slots[i].name
               /\ run.custom_free[i].code = custom_slots[i].code
               /\ run.custom_free[i].cfu = custom_slots[i].cfu
               /\ run.custom_free[i].dept = custom_slots[i].dept)
    /\ [](run.shown /\ ~using_custom =>
            /\ \A c \in Range(run.selected_free) : c \in Range(free_choice_courses)
            /\ {course_label(c) : c \in Range(run.selected_free)}
                  = Range(free_choice_selection_labels))
    /\ [][run'.generated =>
            /\ free_choice_selection_labels' = free_choice_selection_labels
            /\ custom_slots' = custom_slots]_vars

\* C24 witness: a manual entry with an empty required field is refused
\* with no entry in the error list; the warning of the else branch is the
\* message.
C24_Witness ==
    /\ run.shown /\ using_custom /\ ~run.can_generate
    /\ run.errors = <<>>
    /\ run.messages = {"warning_complete_custom"}
    /\ custom_slots[1] # DefaultSlot


\* C28: in app.py as well, no plan is generated whose total exceeds 66 CFU,
\* and the Generate button is not offered for such a selection.
C28_HardOverageInApp ==
    (variant = "app" /\ run.shown /\ run.current_total > 66) =>
        ~run.can_generate /\ ~run.generated

\* C29: a pool course whose normalised code or name is that of the sub
\* path's Curricular II, but not of its Curricular I, and whose code is not
\* banned for the sub path, is eligible in PSI mode and excluded in
\* Standard mode.
C29_PsiExcludesOnlyCurricularI ==
    (run.shown /\ ~using_custom) =>
        LET cur == catalog[main_choice][sub_choice]
            ban == IF sub_choice \in DOMAIN banned_by_subpath
                   THEN banned_by_subpath[sub_choice] ELSE {}
        IN  \A i \in 1..Len(free_choice_courses) :
              LET fc == free_choice_courses[i]
              IN  (/\ \/ lower(strip(fc.code)) = lower(strip(cur[2].code))
                      \/ lower(strip(fc.name)) = lower(strip(cur[2].name))
                   /\ lower(strip(fc.code)) # lower(strip(cur[1].code))
                   /\ lower(strip(fc.name)) # lower(strip(cur[1].name))
                   /\ \A b \in ban : lower(strip(b)) # lower(strip(fc.code)))
                  => (plan_is_psi <=> fc \in Range(run.available_free_courses))

\* C29 witness: a PSI plan is generated that holds a free-choice course
\* with the code of the sub path's Curricular II.
C29_Witness ==
    /\ run.generated /\ plan_is_psi /\ ~using_custom
    /\ \E c \in Range(run.selected_free) :
          lower(strip(c.code)) = lower(strip(catalog[main_choice][sub_choice][2].code))

\* C30: in Standard mode a total below 60 CFU never blocks generation: a
\* catalogue selection of exactly 2 courses, or 2 typed courses that meet
\* the manual constraints, is permitted with any total below 60, and a
\* catalogue plan generated with such a total needs no approval and has no
\* watermark.
C30_NoFloorInStandard ==
    (run.shown /\ ~plan_is_psi /\ run.current_total < 60) =>
        /\ (~using_custom /\ Len(run.selected_free) = 2) => run.can_generate
        /\ (/\ using_custom /\ run.valid_custom
            /\ \A cf \in Range(run.custom_free) :
                  /\ cf.name # <<>> /\ cf.code # <<>> /\ cf.dept # ""
                  /\ \A c \in Range(run.curr_courses) :
                        /\ lower(strip(c.code)) # lower(strip(cf.code))
                        /\ lower(strip(c.name)) # lower(strip(cf.name))
                  /\ (sub_choice \in DOMAIN banned_by_subpath =>
                        \A b \in banned_by_subpath[sub_choice] :
                           lower(strip(b)) # lower(strip(cf.code))))
              => run.can_generate
        /\ (run.generated /\ ~using_custom)
              => ~run.requires_approval /\ run.wm = "None"

\* C30 witness: a Standard catalogue plan of fewer than 60 CFU is generated
\* after a teacher's edit.
C30_Witness ==
    /\ run.generated /\ ~plan_is_psi /\ ~using_custom
    /\ run.current_total < 60
    /\ (catalog # SeedCatalog \/ free_choice_courses # SeedFreeChoice)
    /\ run.wm = "None"


\* --------------------------------------- academic year: the conversion
\* The conversion is applied to a text, and once more to its own result.
InitYear ==
    /\ first_run
    /\ academic_year \in YearInputs
    /\ aa = not_converted
    /\ teacher_msg = no_message
    /\ other_session = not_started
    /\ semester = DefaultSemester
    /\ sem_norm = not_normalized
    /\ sidebar = nothing_typed

\* aa = academic_year_to_aa_format(academic_year)
FormatAcademicYear ==
    /\ aa.calls = 0
    /\ aa' = [calls |-> 1, once |-> academic_year_to_aa_format(academic_year),
              twice |-> <<>>]
    /\ UNCHANGED <<variant, catalog, free_choice_courses, plan_is_psi,
                   main_choice, sub_choice, using_custom,
                   free_choice_selection_labels, custom_slots, run,
                   academic_year, teacher_msg, other_session,
                   semester, sem_norm, sidebar>>

\* the conversion of an already converted text
FormatAgain ==
    /\ aa.calls = 1
    /\ aa' = [aa EXCEPT !.calls = 2,
                        !.twice = academic_year_to_aa_format(aa.once)]
    /\ UNCHANGED <<variant, catalog, free_choice_courses, plan_is_psi,
                   main_choice, sub_choice, using_custom,
                   free_choice_selection_labels, custom_slots, run,
                   academic_year, teacher_msg, other_session,
                   semester, sem_norm, sidebar>>

NextYear == FormatAcademicYear \/ FormatAgain

SpecYear == InitYear /\ [][NextYear]_vars

\* C15: academic_year_to_aa_format maps "Y1-Y2" with numeric Y2 to "Y1/"
\* and the last two digits of Y2, zero-padded to width 2 ("2025-2026"
\* gives "2025/26"); a text with no hyphen is returned unchanged; and
\* converting the result again changes nothing.
C15_YearConversion ==
    /\ aa.calls >= 1 =>
          /\ "-" \notin Range(academic_year) => aa.once = academic_year
          /\ \A k \in 1..Len(academic_year) :
                LET y1 == SubSeq(academic_year, 1, k - 1)
                    y2 == SubSeq(academic_year, k + 1, Len(academic_year))
                IN  (/\ academic_year[k] = "-"
                     /\ "-" \notin Range(y1)
                     /\ y2 # <<>>
                     /\ \A c \in Range(y2) : c \in Range(Digits))
                    => aa.once = y1 \o <<"/">>
                          \o (IF Len(y2) = 1 THEN <<"0", y2[1]>>
                              ELSE SubSeq(y2, Len(y2) - 1, Len(y2)))
          /\ academic_year = <<"2","0","2","5","-","2","0","2","6">> => aa.once = <<"2","0","2","5","/","2","6">>
    /\ aa.calls = 2 => aa.twice = aa.once

\* C15 witness: "2025-2026" has been converted to "2025/26" and converted
\* again.
C15_Witness ==
    /\ academic_year = <<"2","0","2","5","-","2","0","2","6">>
    /\ aa.calls = 2 /\ aa.once = <<"2","0","2","5","/","2","6">> /\ aa.twice = <<"2","0","2","5","/","2","6">>
\* ------------------------------------- teacher tools: what is reported
\* The main specification does not follow the messages of the teacher
\* tools or a second browser session; this one does.  The student widgets
\* of the teacher's session stay at their defaults.

\* st.success / st.error of "Add / Update Sub Path"
sub_path_message(main_sel, sub_path, f) ==
    IF spec_form_ok(main_sel, sub_path, f)
    THEN [level |-> "success", text |-> "saved_sub_path"]
    ELSE [level |-> "error", text |-> "fill_required_fields"]

\* st.success / st.warning / st.error of "Add Free Choice Course"
free_choice_message(pool, f) ==
    IF free_form_filled(f)
    THEN IF free_name_is_new(pool, f)
         THEN [level |-> "success", text |-> "course_added"]
         ELSE [level |-> "warning", text |-> "name_exists"]
    ELSE [level |-> "error", text |-> "enter_name_and_code"]

\* "Add / Update Sub Path" is submitted, with its message
SubmitSubPathForm(teacher_logged_in, f) ==
    /\ teacher_logged_in
    /\ f.choice \in DOMAIN catalog \cup {CreateNewMain}
    /\ Cardinality(edited_sub_paths(
           add_sub_path(catalog, main_selected(f.choice, f.new_main),
                        f.sub_path, f))) <= MaxSubPathEdits
    /\ \E r \in reruns(add_sub_path(catalog, main_selected(f.choice, f.new_main),
                                    f.sub_path, f),
                       free_choice_courses, plan_is_psi,
                       main_choice, sub_choice, using_custom,
                       free_choice_selection_labels, custom_slots, FALSE) :
          session_becomes(r)
    /\ teacher_msg' = sub_path_message(main_selected(f.choice, f.new_main),
                                       f.sub_path, f)
    /\ UNCHANGED <<other_session, sidebar>>

\* "Add Free Choice Course" is submitted, with its message
SubmitFreeChoiceForm(teacher_logged_in, f) ==
    /\ teacher_logged_in
    /\ Len(add_free_choice(free_choice_courses, f)) <= Len(SeedFreeChoice) + MaxAdded
    /\ \E r \in reruns(catalog, add_free_choice(free_choice_courses, f),
                       plan_is_psi, main_choice, sub_choice, using_custom,
                       free_choice_selection_labels, custom_slots, FALSE) :
          session_becomes(r)
    /\ teacher_msg' = free_choice_message(free_choice_courses, f)
    /\ UNCHANGED <<other_session, sidebar>>

\* an execution in which no form was submitted shows no message
RerunWithoutSubmit ==
    /\ teacher_msg # no_message
    /\ teacher_msg' = no_message
    /\ UNCHANGED <<variant, catalog, free_choice_courses, plan_is_psi,
                   main_choice, sub_choice, using_custom,
                   free_choice_selection_labels, custom_slots, run,
                   academic_year, aa, other_session, semester, sem_norm,
                   sidebar>>

\* the first execution of the script in a second browser session: its
\* st.session_state holds neither key, so both are seeded
OtherSessionFirstRun ==
    /\ ~other_session.started
    /\ other_session' = [started |-> TRUE, catalog |-> SeedCatalog,
                         free_choice_courses |-> SeedFreeChoice]
    /\ UNCHANGED <<variant, catalog, free_choice_courses, plan_is_psi,
                   main_choice, sub_choice, using_custom,
                   free_choice_selection_labels, custom_slots, run,
                   academic_year, aa, teacher_msg, semester, sem_norm,
                   sidebar>>

NextTeacher ==
    \/ \E id_ok \in BOOLEAN, pass_ok \in BOOLEAN, f \in SpecFormInputs :
          SubmitSubPathForm(teacher_login(id_ok, pass_ok), f)
    \/ \E id_ok \in BOOLEAN, pass_ok \in BOOLEAN, f \in FreeFormInputs :
          SubmitFreeChoiceForm(teacher_login(id_ok, pass_ok), f)
    \/ RerunWithoutSubmit
    \/ OtherSessionFirstRun

SpecTeacher == Init /\ [][NextTeacher]_vars

\* C17: an add whose name or code is empty, or whose name is the name of a
\* course of the pool, leaves the pool unchanged and shows an error or a
\* warning; any other add appends the new course at the end of the pool;
\* and no two courses of the pool ever have the same name.
C17_AddFreeChoiceCourse ==
    /\ [](\A i, j \in 1..Len(free_choice_courses) :
             free_choice_courses[i].name = free_choice_courses[j].name => i = j)
    /\ [][\A f \in FreeFormInputs :
            SubmitFreeChoiceForm(TRUE, f) =>
               IF \/ f.name = <<>> \/ f.code = <<>>
                  \/ \E i \in 1..Len(free_choice_courses) :
                        free_choice_courses[i].name = f.name
               THEN /\ free_choice_courses' = free_choice_courses
                    /\ teacher_msg'.level \in {"error", "warning"}
               ELSE /\ Len(free_choice_courses') = Len(free_choice_courses) + 1
                    /\ SubSeq(free_choice_courses', 1, Len(free_choice_courses))
                          = free_choice_courses
                    /\ LET c == free_choice_courses'[Len(free_choice_courses')]
                       IN  /\ c.name = f.name /\ c.code = f.code
                           /\ c.cfu = f.cfu]_vars

\* C17 witness: a course was appended at the end of the seeded pool and a
\* second add of the same name has just been refused with the warning.
C17_Witness ==
    /\ Len(free_choice_courses) = Len(SeedFreeChoice) + 1
    /\ free_choice_courses[Len(free_choice_courses)].name = <<"T","h","e","s","i","s"," ","L","a","b">>
    /\ teacher_msg = [level |-> "warning", text |-> "name_exists"]

\* C18: "Add / Update Sub Path" with a required field missing (the main
\* path name, the sub path name, a course name or a course code) leaves the
\* catalog unchanged and shows an error; with all of them present the
\* entry of that main path and sub path becomes the pair of the two
\* courses and every other entry of the catalog is unchanged.
C18_AddOrReplaceSubPath ==
    [][\A f \in SpecFormInputs :
         SubmitSubPathForm(TRUE, f) =>
            LET main_path == IF f.choice = CreateNewMain THEN f.new_main ELSE f.choice
            IN  IF \/ main_path = "" \/ f.sub_path = ""
                   \/ f.c1_name = <<>> \/ f.c2_name = <<>>
                   \/ f.c1_code = <<>> \/ f.c2_code = <<>>
                THEN /\ catalog' = catalog
                     /\ teacher_msg'.level = "error"
                ELSE /\ main_path \in DOMAIN catalog'
                     /\ f.sub_path \in DOMAIN catalog'[main_path]
                     /\ Len(catalog'[main_path][f.sub_path]) = 2
                     /\ catalog'[main_path][f.sub_path][1].name = f.c1_name
                     /\ catalog'[main_path][f.sub_path][1].code = f.c1_code
                     /\ catalog'[main_path][f.sub_path][1].cfu = f.c1_cfu
                     /\ catalog'[main_path][f.sub_path][2].name = f.c2_name
                     /\ catalog'[main_path][f.sub_path][2].code = f.c2_code
                     /\ catalog'[main_path][f.sub_path][2].cfu = f.c2_cfu
                     /\ DOMAIN catalog' = DOMAIN catalog \cup {main_path}
                     /\ \A m \in DOMAIN catalog :
                           /\ DOMAIN catalog[m] \subseteq DOMAIN catalog'[m]
                           /\ \A s \in DOMAIN catalog[m] :
                                 (m # main_path \/ s # f.sub_path)
                                    => catalog'[m][s] = catalog[m][s]
                     /\ \A m \in DOMAIN catalog' : \A s \in DOMAIN catalog'[m] :
                           \/ m = main_path /\ s = f.sub_path
                           \/ m \in DOMAIN catalog /\ s \in DOMAIN catalog[m]]_vars

\* C19: the catalog and the free-choice pool are those of the process: what
\* a second browser session composes its plans from is the catalog and the
\* pool as the teacher's edits have left them.
C19_CatalogIsProcessWide ==
    other_session.started =>
        /\ other_session.catalog = catalog
        /\ other_session.free_choice_courses = free_choice_courses

\* C25: in every catalog the teacher's edits can leave, every sub path has
\* exactly two courses and the first has at least the CFU of the second.
C25_CurriculumShape ==
    \A m \in DOMAIN catalog : \A s \in DOMAIN catalog[m] :
        /\ Len(catalog[m][s]) = 2
        /\ catalog[m][s][1].cfu >= catalog[m][s][2].cfu

\* ------------------------------------ make_course: the semester spelling
\* make_course is applied to a semester text, and once more to the
\* semester it stored.
MaxSemLen == 3
SemAlphabet == {"I", "1", "2", " ", "x"}
RECURSIVE sem_texts(_)
\* the texts of n characters over SemAlphabet
sem_texts(n) ==
    IF n = 0 THEN {<<>>}
    ELSE {<<c>> \o t : c \in SemAlphabet, t \in sem_texts(n - 1)}

\* semester texts: every spelling of the table, bare and padded, other
\* words, and every short text
SemesterInputs ==
    UNION {sem_texts(n) : n \in 0..MaxSemLen}
    \cup {p[1] : p \in mapping}
    \cup {<<" ">> \o p[1] : p \in mapping}
    \cup {p[1] \o <<" ">> : p \in mapping}
    \cup {<<"F","a","l","l">>, <<" ","F","a","l","l">>, <<"F","a","l","l"," ">>, <<"F","I","R","S","T">>, <<"S","e","c","o","n","d","&","F","i","r","s","t">>,
          <<"f","i","r","s","t"," ","&"," ","s","e","c","o","n","d">>, <<"I","I","I">>}

InitSemester ==
    /\ first_run
    /\ academic_year = DefaultAcademicYear
    /\ aa = not_converted
    /\ teacher_msg = no_message
    /\ other_session = not_started
    /\ semester \in SemesterInputs
    /\ sem_norm = not_normalized
    /\ sidebar = nothing_typed

\* make_course(..., semester=semester)["semester"]
NormalizeSemester ==
    /\ sem_norm.calls = 0
    /\ sem_norm' = [calls |-> 1,
                    once |-> make_course(<<>>, <<>>, 6, "DIETI", "Second",
                                         semester, <<>>).semester,
                    twice |-> <<>>]
    /\ UNCHANGED <<variant, catalog, free_choice_courses, plan_is_psi,
                   main_choice, sub_choice, using_custom,
                   free_choice_selection_labels, custom_slots, run,
                   academic_year, aa, teacher_msg, other_session, semester,
                   sidebar>>

\* make_course on the semester a course already holds
NormalizeAgain ==
    /\ sem_norm.calls = 1
    /\ sem_norm' = [sem_norm EXCEPT
                      !.calls = 2,
                      !.twice = make_course(<<>>, <<>>, 6, "DIETI", "Second",
                                            sem_norm.once, <<>>).semester]
    /\ UNCHANGED <<variant, catalog, free_choice_courses, plan_is_psi,
                   main_choice, sub_choice, using_custom,
                   free_choice_selection_labels, custom_slots, run,
                   academic_year, aa, teacher_msg, other_session, semester,
                   sidebar>>

NextSemester == NormalizeSemester \/ NormalizeAgain

SpecSemester == InitSemester /\ [][NextSemester]_vars

\* C26: "I", "1", "First", "first" are stored as first; "II", "2",
\* "Second", "second" as second; "first&Second", "First&Second",
\* "first&second" as first&second; any other semester text is stored
\* exactly as given; and normalising a stored value returns it unchanged.
C26_SemesterNormalization ==
    /\ sem_norm.calls >= 1 =>
          /\ semester \in {<<"I">>, <<"1">>, <<"F","i","r","s","t">>, <<"f","i","r","s","t">>}
                => sem_norm.once = <<"f","i","r","s","t">>
          /\ semester \in {<<"I","I">>, <<"2">>, <<"S","e","c","o","n","d">>, <<"s","e","c","o","n","d">>}
                => sem_norm.once = <<"s","e","c","o","n","d">>
          /\ semester \in {<<"f","i","r","s","t","&","S","e","c","o","n","d">>, <<"F","i","r","s","t","&","S","e","c","o","n","d">>, <<"f","i","r","s","t","&","s","e","c","o","n","d">>}
                => sem_norm.once = <<"f","i","r","s","t","&","s","e","c","o","n","d">>
          /\ semester \notin {<<"I">>, <<"1">>, <<"F","i","r","s","t">>, <<"f","i","r","s","t">>,
                              <<"I","I">>, <<"2">>, <<"S","e","c","o","n","d">>, <<"s","e","c","o","n","d">>,
                              <<"f","i","r","s","t","&","S","e","c","o","n","d">>, <<"F","i","r","s","t","&","S","e","c","o","n","d">>, <<"f","i","r","s","t","&","s","e","c","o","n","d">>}
                => sem_norm.once = semester
    /\ sem_norm.calls = 2 => sem_norm.twice = sem_norm.once

\* C26 as amended: the semester text is first stripped of the blanks at its
\* two ends; a stripped text that is a spelling of the table is stored as
\* its canonical value, any other stripped text is stored as it is; and
\* normalising a stored value returns it unchanged.
C26_SemesterStrippedThenNormalized ==
    /\ sem_norm.calls >= 1 =>
          \E a, b \in 0..Len(semester) :
             /\ a + b <= Len(semester)
             /\ \A k \in 1..a : semester[k] = " "
             /\ \A k \in (Len(semester) - b + 1)..Len(semester) : semester[k] = " "
             /\ LET core == SubSeq(semester, a + 1, Len(semester) - b)
                IN  /\ core # <<>> => core[1] # " " /\ core[Len(core)] # " "
                    /\ sem_norm.once =
                          IF core \in {<<"I">>, <<"1">>, <<"F","i","r","s","t">>, <<"f","i","r","s","t">>}
                          THEN <<"f","i","r","s","t">>
                          ELSE IF core \in {<<"I","I">>, <<"2">>, <<"S","e","c","o","n","d">>, <<"s","e","c","o","n","d">>}
                          THEN <<"s","e","c","o","n","d">>
                          ELSE IF core \in {<<"f","i","r","s","t","&","S","e","c","o","n","d">>, <<"F","i","r","s","t","&","S","e","c","o","n","d">>,
                                            <<"f","i","r","s","t","&","s","e","c","o","n","d">>}
                          THEN <<"f","i","r","s","t","&","s","e","c","o","n","d">>
                          ELSE core
    /\ sem_norm.calls = 2 => sem_norm.twice = sem_norm.once

\* C26 witness: "Fall " was stored as "Fall", and "Fall" again as "Fall".
C26_Witness ==
    /\ semester = <<"F","a","l","l"," ">>
    /\ sem_norm.calls = 2
    /\ sem_norm.once = <<"F","a","l","l">> /\ sem_norm.twice = <<"F","a","l","l">>

\* ------------------------------------------- the login of the sidebar
\* The session with the teacher login as the sidebar holds it.  The
\* teacher tools are rendered only in an execution whose login inputs
\* match the secrets, so a form is submitted only with such inputs.

\* the login inputs are filled in and "Add / Update Sub Path" is submitted
LoginAddOrReplaceSubPath(id_ok, pass_ok, f) ==
    /\ teacher_login(id_ok, pass_ok)
    /\ f.choice \in DOMAIN catalog \cup {CreateNewMain}
    /\ Cardinality(edited_sub_paths(
           add_sub_path(catalog, main_selected(f.choice, f.new_main),
                        f.sub_path, f))) <= MaxSubPathEdits
    /\ \E r \in reruns(add_sub_path(catalog, main_selected(f.choice, f.new_main),
                                    f.sub_path, f),
                       free_choice_courses, plan_is_psi,
                       main_choice, sub_choice, using_custom,
                       free_choice_selection_labels, custom_slots, FALSE) :
          session_becomes(r)
    /\ sidebar' = [id_ok |-> id_ok, pass_ok |-> pass_ok]
    /\ UNCHANGED <<teacher_msg, other_session>>

\* the login inputs are filled in and "Add Free Choice Course" is submitted
LoginAddFreeChoiceCourse(id_ok, pass_ok, f) ==
    /\ teacher_login(id_ok, pass_ok)
    /\ Len(add_free_choice(free_choice_courses, f)) <= Len(SeedFreeChoice) + MaxAdded
    /\ \E r \in reruns(catalog, add_free_choice(free_choice_courses, f),
                       plan_is_psi, main_choice, sub_choice, using_custom,
                       free_choice_selection_labels, custom_slots, FALSE) :
          session_becomes(r)
    /\ sidebar' = [id_ok |-> id_ok, pass_ok |-> pass_ok]
    /\ UNCHANGED <<teacher_msg, other_session>>

NextLogin ==
    \/ \E id_ok \in BOOLEAN, pass_ok \in BOOLEAN, f \in SpecFormInputs :
          LoginAddOrReplaceSubPath(id_ok, pass_ok, f)
    \/ \E id_ok \in BOOLEAN, pass_ok \in BOOLEAN, f \in FreeFormInputs :
          LoginAddFreeChoiceCourse(id_ok, pass_ok, f)
    \/ \E psi \in BOOLEAN : ChoosePlanMode(psi)
    \/ \E m \in DOMAIN catalog \cup {SelectMainPath} : ChooseMainPath(m)
    \/ \E s \in (IF main_choice \in DOMAIN catalog
                 THEN DOMAIN catalog[main_choice] ELSE {}) \cup {SelectSubPath} :
          ChooseSubPath(s)
    \/ \E custom \in BOOLEAN : ChooseFreeChoiceMode(custom)
    \/ \E l \in Range(run.free_labels) : SelectFreeCourse(l)
    \/ \E l \in Range(free_choice_selection_labels) : DeselectFreeCourse(l)
    \/ \E i \in 1..3 : \E w \in SlotInputs(i) : EditCustomSlot(i, w)
    \/ \E response \in RelayResponses : PressGenerate(response)

SpecLogin == Init /\ [][NextLogin]_vars

\* C27: the catalog and the pool change only in an execution whose login
\* inputs match the secrets, and then only by one successful edit: one
\* course appended to the pool, or one sub path set to a pair of courses;
\* an execution in which the student changes the plan mode, chooses a main
\* path or a sub path, turns to manual entry, adds a label, types a course
\* or generates leaves both unchanged; no pool course is ever removed or
\* modified and no sub path is ever removed.
C27_OnlyTeacherEdits ==
    /\ [][(catalog' # catalog \/ free_choice_courses' # free_choice_courses)
            => /\ sidebar'.id_ok /\ sidebar'.pass_ok
               /\ \/ /\ catalog' = catalog
                     /\ Len(free_choice_courses') = Len(free_choice_courses) + 1
                  \/ /\ free_choice_courses' = free_choice_courses
                     /\ \E m \in DOMAIN catalog' : \E s \in DOMAIN catalog'[m] :
                           /\ Len(catalog'[m][s]) = 2
                           /\ \A m2 \in DOMAIN catalog' : \A s2 \in DOMAIN catalog'[m2] :
                                 (m2 # m \/ s2 # s)
                                    => /\ m2 \in DOMAIN catalog
                                       /\ s2 \in DOMAIN catalog[m2]
                                       /\ catalog'[m2][s2] = catalog[m2][s2]]_vars
    /\ [][(\/ plan_is_psi' # plan_is_psi
           \/ main_choice' \notin {main_choice, SelectMainPath}
           \/ sub_choice' \notin {sub_choice, SelectSubPath}
           \/ using_custom' /\ ~using_custom
           \/ Len(free_choice_selection_labels') > Len(free_choice_selection_labels)
           \/ \E i \in 1..3 : custom_slots'[i] \notin {custom_slots[i], DefaultSlot}
           \/ run'.generated)
            => /\ catalog' = catalog
               /\ free_choice_courses' = free_choice_courses]_vars
    /\ [][/\ Len(free_choice_courses') >= Len(free_choice_courses)
          /\ SubSeq(free_choice_courses', 1, Len(free_choice_courses))
                = free_choice_courses
          /\ \A m \in DOMAIN catalog :
                /\ m \in DOMAIN catalog'
                /\ DOMAIN catalog[m] \subseteq DOMAIN catalog'[m]]_vars

\* C27 witness: the teacher has replaced a sub path and added a course to
\* the pool, and a student has generated a plan from the catalogue since.
C27_Witness ==
    /\ catalog # SeedCatalog
    /\ Len(free_choice_courses) = Len(SeedFreeChoice) + 1
    /\ sidebar = [id_ok |-> TRUE, pass_ok |-> TRUE]
    /\ run.generated


=============================================================================
